---- MODULE Spec2Model ----
(***************************************************************************)
(* Model of the oasis-chain gateway: the simulated blockchain of           *)
(* src/src/blockchain.rs (ChainState behind an RwLock, send_raw_transaction,*)
(* mine_block, the read queries and simulate_transaction).                 *)
(*                                                                         *)
(* Option<T> is modelled as a sequence: None is <<>>, Some(x) is <<x>>.    *)
(* A HashMap is a function whose DOMAIN is the key set; insert overrides.  *)
(* A hash (H256) is a sequence of numbers; keccak is modelled as an        *)
(* injective (collision-free) tagging of its input bytes.                  *)
(***************************************************************************)
EXTENDS Integers, Sequences, FiniteSets, TLC

VARIABLES
    mkvs,                  \* ChainState.mkvs: committed account state (sender -> nonce)
    block_number,          \* ChainState.block_number
    blocks,                \* ChainState.blocks: H256 -> EthereumBlock
    block_number_to_hash,  \* ChainState.block_number_to_hash: u64 -> H256
    transactions,          \* ChainState.transactions: H256 -> LocalizedTransaction
    receipts,              \* ChainState.receipts: H256 -> LocalizedReceipt
    writer,                \* RwLock<ChainState>: the thread holding the write guard
    readers,               \* RwLock<ChainState>: the threads holding a read guard across steps
    pc,                    \* position of each send_raw_transaction caller
    loc,                   \* locals of each caller inside mine_block
    last_result,           \* what the send_raw_transaction call that returned last returned
    snap,                  \* ChainState as it was when the caller took the write guard
    succeeded,             \* number of send_raw_transaction calls that returned Ok
    rpc,                   \* position of each reading client
    seen,                  \* the best block number the reading client was given
    spc,                   \* position of each simulation job
    sloc,                  \* locals of each simulation job
    lpc,                   \* position of the client calling logs
    lloc,                  \* locals of the logs call in progress
    lres,                  \* what the client's last logs call returned
    qres,                  \* what the client's last direct lookups returned
    ctx,                   \* the ConfidentialCtx of the execution under way
    cret,                  \* the ConfidentialCtx operation called last and what it returned
    session_use,           \* (peer, contract, nonce) of the last successful encrypt_session
    established,           \* a decrypt_session has succeeded on this ConfidentialCtx
    stored,                \* the storage value under observation: what was written, by whom
    storage_use,           \* (contract, nonce) of the first encrypt_storage_value of this context
    api,                   \* the ApiSet::from_str call under way: input, position, result
    polls,                 \* EthFilterClient.polls: the installed PollFilter
    fpc,                   \* position of the client calling the filter methods
    floc,                  \* locals of the filter call in progress
    fres,                  \* what the client's last filter_changes call returned
    reported,              \* everything the filter_changes calls have returned so far
    broker,                \* pubsub Inner.last_notified_block and the tick in progress
    notified               \* the notify_blocks(from, to) calls a listener has received

chainVars == <<mkvs, block_number, blocks, block_number_to_hash, transactions, receipts>>
lockVars == <<writer, readers>>
minerVars == <<pc, loc, last_result, snap, succeeded>>
readerVars == <<rpc, seen>>
simVars == <<spc, sloc>>
queryVars == <<lpc, lloc, lres, qres>>
ctxVars == <<ctx, cret, session_use, established, stored, storage_use>>
apiVars == <<api>>
filterVars == <<polls, fpc, floc, fres, reported>>
brokerVars == <<broker, notified>>
subVars == <<filterVars, brokerVars>>
restVars == <<queryVars, ctxVars, apiVars, subVars>>
vars == <<chainVars, lockVars, minerVars, readerVars, simVars, restVars>>

----------------------------------------------------------------------------
(* Program constants and configuration.                                    *)

BLOCK_GAS_LIMIT == 16000000
MIN_GAS_PRICE_GWEI == 1

\* Blockchain.block_gas_limit and Blockchain.gas_price, as configured.
block_gas_limit == BLOCK_GAS_LIMIT
gas_price == MIN_GAS_PRICE_GWEI

\* Sizes of ekiden_crypto's nonce and Deoxys-II tag, in bytes.
NONCE_SIZE == 15
NONCE_TAG_SIZE == 11
TAG_SIZE == 16

(* Bounds of the model.                                                    *)
MaxBlocks == 2      \* blocks mined after genesis
MaxItems == 3       \* comma-separated items of an API-set string
MaxPolls == 2       \* filter_changes calls answered for a filter
CounterMax == 3     \* largest value of a nonce's counter (2^32 - 1 in the program)

Miners == {"m1", "m2"}      \* threads calling send_raw_transaction
Readers == {"r1"}           \* threads issuing read queries
Sims == {"s1"}              \* jobs of the simulator pool
NoThread == "none"

Senders == {1}
GasChoices == {BLOCK_GAS_LIMIT, BLOCK_GAS_LIMIT + 1}
Nonces == 0..(MaxBlocks - 1)
GasPriceChoices == {MIN_GAS_PRICE_GWEI - 1, MIN_GAS_PRICE_GWEI}
LogChoices == {<<>>, <<1, 2>>}   \* log entries of one execution, by emitting address

\* The raw byte strings a caller may submit, by what they decode to.
\* Bytes that do not decode carry no fields.
Garbage ==
    [decodable |-> FALSE, sig_ok |-> FALSE, sender |-> 0, nonce |-> 0, gas |-> 0,
     gas_price |-> 0]

RawTxns ==
    {Garbage} \cup
    [decodable : {TRUE}, sig_ok : BOOLEAN, sender : Senders, nonce : Nonces,
     gas : GasChoices, gas_price : GasPriceChoices]

\* The transactions a client asks to simulate.
SimTxns ==
    [sender : Senders, nonce : {0}, gas : {BLOCK_GAS_LIMIT}, gas_price : {MIN_GAS_PRICE_GWEI}]

----------------------------------------------------------------------------
(* Hashes.                                                                 *)

ZeroHash == <<0>>

Keccak(bytes) == <<1>> \o bytes

RECURSIVE to_string(_)
to_string(n) == IF n < 10 THEN <<48 + n>> ELSE to_string(n \div 10) \o <<48 + (n % 10)>>

\* SignedTransaction::hash: keccak of the transaction's encoding.
TxnHash(t) == Keccak(<<200, t.nonce, t.gas_price, t.gas, t.sender>>)

Some(x) == <<x>>
None == <<>>

\* insert dropping what the map held.
Insert_Forgetful(map, k, v) == (k :> v)

Insert(map, k, v) == (k :> v) @@ map
Get(map, k) == IF k \in DOMAIN map THEN Some(map[k]) ELSE None
EmptyMap == <<>>

----------------------------------------------------------------------------
(* EthereumBlock and ChainState.                                           *)

EthereumBlockNew(number, parent_hash, gas_used, gas_limit) ==
    [number |-> number, parent_hash |-> parent_hash, logs |-> <<>>,
     transactions |-> <<>>, hash |-> Keccak(to_string(number)),
     gas_used |-> gas_used, gas_limit |-> gas_limit]

\* ChainStateNew without the genesis entry of the number-to-hash index.
ChainStateNew_NoIndex ==
    LET genesis_block == EthereumBlockNew(0, ZeroHash, 0, BLOCK_GAS_LIMIT)
    IN  [mkvs |-> [s \in Senders |-> 0],
         block_number |-> 0,
         blocks |-> Insert(EmptyMap, genesis_block.hash, genesis_block),
         block_number_to_hash |-> EmptyMap,
         transactions |-> EmptyMap,
         receipts |-> EmptyMap]

ChainStateNew ==
    LET genesis_block == EthereumBlockNew(0, ZeroHash, 0, BLOCK_GAS_LIMIT)
        block_hash == genesis_block.hash
    IN  [mkvs |-> [s \in Senders |-> 0],
         block_number |-> 0,
         blocks |-> Insert(EmptyMap, block_hash, genesis_block),
         block_number_to_hash |-> Insert(EmptyMap, 0, block_hash),
         transactions |-> EmptyMap,
         receipts |-> EmptyMap]

\* The ChainState value currently behind the lock.
ChainState ==
    [mkvs |-> mkvs, block_number |-> block_number, blocks |-> blocks,
     block_number_to_hash |-> block_number_to_hash,
     transactions |-> transactions, receipts |-> receipts]

get_block_by_number(cs, number) ==
    IF number \in DOMAIN cs.block_number_to_hash
    THEN Get(cs.blocks, cs.block_number_to_hash[number])
    ELSE None

----------------------------------------------------------------------------
(* Values of the callers' locals.                                          *)

NoTxn == [sender |-> 0, nonce |-> 0, gas |-> 0, gas_price |-> 0]
NoOutcome == [exception |-> "none", status_code |-> 0, gas_used |-> 0, logs |-> <<>>]
NoLoc == [txn |-> NoTxn, best_hash |-> ZeroHash, number |-> 0, outcome |-> NoOutcome,
          ctx |-> None]

\* A call's return value, as last_result keeps it: Ok or Err, the error message,
\* and the status code of the ExecutionResult.
NoResult == [kind |-> "none", msg |-> "", status_code |-> 0]
Err(msg) == [kind |-> "err", msg |-> msg, status_code |-> 0]
Ok(value) == [kind |-> "ok", msg |-> "", status_code |-> value[2].status_code]

\* ConfidentialCtx::new bound to the all-zero hash whatever it is given.
ConfidentialCtxNew_ZeroHash(prev_block_hash) ==
    [peer_public_key |-> None, contract |-> None, next_nonce |-> None,
     activated |-> FALSE, prev_block_hash |-> <<0>>, d2 |-> None,
     next_storage_nonce |-> None]

\* ConfidentialCtx::new: a fresh, inactive context bound to the previous block hash.
ConfidentialCtxNew(prev_block_hash) ==
    [peer_public_key |-> None, contract |-> None, next_nonce |-> None,
     activated |-> FALSE, prev_block_hash |-> prev_block_hash, d2 |-> None,
     next_storage_nonce |-> None]

----------------------------------------------------------------------------
(* The state-transition engine, as mine_block and simulate_transaction use *)
(* it. apply checks the sender's nonce against the account state, may      *)
(* refuse the transaction for another reason (balances are not modelled),  *)
(* and otherwise returns a receipt whose EIP-658 status code is 1, or 0    *)
(* when the VM reverted or ran out of gas.                                 *)

EngineErrors == {"Invalid transaction nonce", "Not enough cash"}

Executions(t) ==
    {[exception |-> "none", status_code |-> 1, gas_used |-> 21000, logs |-> l] :
        l \in LogChoices}
    \cup {[exception |-> "Reverted", status_code |-> 0, gas_used |-> 21000, logs |-> <<>>],
          [exception |-> "OutOfGas", status_code |-> 0, gas_used |-> t.gas, logs |-> <<>>]}

\* state.apply(&env_info, machine, &txn, ...): Err(message) or Ok(outcome).
ApplyResults(st, t) ==
    IF t.nonce # st[t.sender]
    THEN {[ok |-> FALSE, err |-> "Invalid transaction nonce", outcome |-> NoOutcome]}
    ELSE {[ok |-> FALSE, err |-> "Not enough cash", outcome |-> NoOutcome]}
         \cup {[ok |-> TRUE, err |-> "", outcome |-> o] : o \in Executions(t)}

\* state.commit(): the executed transaction's state diff reaches the store.
CommitDiff(st, t) == [st EXCEPT ![t.sender] = @ + 1]

----------------------------------------------------------------------------
(* RwLock<ChainState>.                                                     *)

\* Reads that do not wait for the writer, and writes that do not wait for anyone.
CanRead_Unguarded == TRUE
CanWrite_Unguarded == TRUE

\* chain_state.read(): granted while no thread holds the write guard.
CanRead == writer = NoThread

\* chain_state.write(): granted while no thread holds any guard.
CanWrite == writer = NoThread /\ readers = {}

----------------------------------------------------------------------------
(* send_raw_transaction.                                                   *)

\* Validate with the signature verified before the gas limit is compared.
Validate_SignatureFirst(raw) ==
    IF ~raw.decodable THEN "Could not decode transaction"
    ELSE IF ~raw.sig_ok THEN "Invalid signature"
    ELSE IF raw.gas > block_gas_limit THEN "Requested gas greater than block gas limit"
    ELSE IF raw.gas_price < gas_price THEN "Insufficient gas price"
    ELSE "ok"

\* Validate with both comparisons made inclusive.
Validate_Inclusive(raw) ==
    IF ~raw.decodable THEN "Could not decode transaction"
    ELSE IF raw.gas >= block_gas_limit THEN "Requested gas greater than block gas limit"
    ELSE IF ~raw.sig_ok THEN "Invalid signature"
    ELSE IF raw.gas_price <= gas_price THEN "Insufficient gas price"
    ELSE "ok"

\* The four checks, in order: the error message of the first that fails.
Validate(raw) ==
    IF ~raw.decodable THEN "Could not decode transaction"
    ELSE IF raw.gas > block_gas_limit THEN "Requested gas greater than block gas limit"
    ELSE IF ~raw.sig_ok THEN "Invalid signature"
    ELSE IF raw.gas_price < gas_price THEN "Insufficient gas price"
    ELSE "ok"

RejectionErrors ==
    {"Could not decode transaction", "Requested gas greater than block gas limit",
     "Invalid signature", "Insufficient gas price"}

Signed(raw) ==
    [sender |-> raw.sender, nonce |-> raw.nonce, gas |-> raw.gas,
     gas_price |-> raw.gas_price]

\* Reject with the best-block pointer advanced before the checks ran.
Reject_AfterAdvance(m, msg) ==
    /\ last_result' = Err(msg)
    /\ block_number' = block_number + 1
    /\ UNCHANGED <<mkvs, blocks, block_number_to_hash, transactions, receipts,
                   lockVars, pc, loc, snap, succeeded>>

\* return Err(format_err!(...)).into_future(): no guard was taken, nothing is touched.
Reject(m, msg) ==
    /\ last_result' = Err(msg)
    /\ UNCHANGED <<chainVars, lockVars, pc, loc, snap, succeeded>>

InFlight == {x \in Miners : pc[x] # "idle"}

send_raw_transaction(m, raw) ==
    /\ pc[m] = "idle"
    /\ IF Validate(raw) # "ok"
       THEN Reject(m, Validate(raw))
       ELSE /\ block_number + Cardinality(InFlight) < MaxBlocks
            /\ pc' = [pc EXCEPT ![m] = "mine"]
            /\ loc' = [loc EXCEPT ![m] = [NoLoc EXCEPT !.txn = Signed(raw)]]
            /\ UNCHANGED <<chainVars, lockVars, last_result, snap, succeeded>>
    /\ UNCHANGED <<readerVars, simVars, restVars>>

----------------------------------------------------------------------------
(* mine_block, one step per group of statements.                           *)

\* let mut chain_state = self.chain_state.write().unwrap();
AcquireWrite(m) ==
    /\ pc[m] = "mine"
    /\ CanWrite
    /\ writer' = m
    /\ snap' = [snap EXCEPT ![m] = ChainState]
    /\ pc' = [pc EXCEPT ![m] = "apply"]
    /\ UNCHANGED <<chainVars, readers, loc, last_result, succeeded, readerVars, simVars, restVars>>

\* mine_block returning with the write guard still held.
ReleaseWrite_Leaks(m) == writer' = writer

\* The guard is dropped when mine_block returns.
ReleaseWrite(m) == writer' = IF writer = m THEN NoThread ELSE writer

\* AbortMine with state.commit() run before the result of apply is inspected.
AbortMine_CommitFirst(m, err) ==
    /\ last_result' = Err(err)
    /\ loc' = [loc EXCEPT ![m] = NoLoc]
    /\ snap' = [snap EXCEPT ![m] = ChainStateNew]
    /\ pc' = [pc EXCEPT ![m] = "idle"]
    /\ writer' = IF writer = m THEN NoThread ELSE writer
    /\ mkvs' = [mkvs EXCEPT ![loc[m].txn.sender] = @ + 1]
    /\ UNCHANGED <<block_number, blocks, block_number_to_hash, transactions, receipts>>

\* Err(err) => return Err(format_err!("{}", err)): the state and the guard are
\* dropped, nothing was committed.
AbortMine(m, err) ==
    /\ last_result' = Err(err)
    /\ loc' = [loc EXCEPT ![m] = NoLoc]
    /\ snap' = [snap EXCEPT ![m] = ChainStateNew]
    /\ pc' = [pc EXCEPT ![m] = "idle"]
    /\ ReleaseWrite(m)
    /\ UNCHANGED chainVars

\* Best block, state, environment; then state.apply. On Err the call returns.
Execute(m) ==
    /\ pc[m] = "apply"
    /\ get_block_by_number(ChainState, block_number) # None
    /\ LET best_block == get_block_by_number(ChainState, block_number)[1]
           number == block_number + 1
       IN  \E r \in ApplyResults(mkvs, loc[m].txn) :
             IF r.ok
             THEN /\ loc' = [loc EXCEPT ![m].best_hash = best_block.hash,
                                        ![m].number = number,
                                        ![m].ctx = Some(ConfidentialCtxNew(best_block.hash)),
                                        ![m].outcome = r.outcome]
                  /\ pc' = [pc EXCEPT ![m] = "commit"]
                  /\ UNCHANGED <<chainVars, writer, last_result, snap>>
             ELSE AbortMine(m, r.err)
    /\ UNCHANGED <<readers, succeeded, readerVars, simVars, restVars>>

\* state.commit().expect("state commit must succeed");
Commit(m) ==
    /\ pc[m] = "commit"
    /\ mkvs' = CommitDiff(mkvs, loc[m].txn)
    /\ pc' = [pc EXCEPT ![m] = "set_number"]
    /\ UNCHANGED <<block_number, blocks, block_number_to_hash, transactions, receipts,
                   lockVars, loc, last_result, snap, succeeded, readerVars, simVars, restVars>>

\* NewBlock with the new block's own hash passed as its parent hash.
NewBlock_OwnHashAsParent(l) ==
    EthereumBlockNew(l.number, Keccak(to_string(l.number)), l.outcome.gas_used,
                     block_gas_limit)

\* The records mine_block builds from its locals l (txn, best_hash, number, outcome).
NewBlock(l) ==
    EthereumBlockNew(l.number, l.best_hash, l.outcome.gas_used, block_gas_limit)

\* LocalizedTransactionOf linked to the parent block's hash.
LocalizedTransactionOf_ParentHash(l) ==
    [signed |-> l.txn, block_number |-> l.number, block_hash |-> l.best_hash,
     transaction_index |-> 0]

LocalizedTransactionOf(l) ==
    [signed |-> l.txn, block_number |-> l.number, block_hash |-> NewBlock(l).hash,
     transaction_index |-> 0]

LocalizedLogs(l) ==
    [i \in 1..Len(l.outcome.logs) |->
        [entry |-> l.outcome.logs[i], block_hash |-> NewBlock(l).hash,
         block_number |-> l.number, transaction_hash |-> TxnHash(l.txn),
         transaction_index |-> 0, transaction_log_index |-> i - 1, log_index |-> i - 1]]

LocalizedReceiptOf(l) ==
    [transaction_hash |-> TxnHash(l.txn), transaction_index |-> 0,
     block_hash |-> NewBlock(l).hash, block_number |-> l.number,
     cumulative_gas_used |-> l.outcome.gas_used, gas_used |-> l.outcome.gas_used,
     logs |-> LocalizedLogs(l), outcome |-> l.outcome.status_code]

\* block.transactions = vec![localized_txn]; block.logs = logs;
StoredBlock(l) ==
    [NewBlock(l) EXCEPT !.transactions = <<LocalizedTransactionOf(l)>>,
                        !.logs = LocalizedLogs(l)]

\* ExecutionResultOf reporting success whatever the receipt's outcome.
ExecutionResultOf_AlwaysSuccess(outcome) ==
    [cumulative_gas_used |-> outcome.gas_used, gas_used |-> outcome.gas_used,
     logs |-> outcome.logs, status_code |-> 1]

ExecutionResultOf(outcome) ==
    [cumulative_gas_used |-> outcome.gas_used, gas_used |-> outcome.gas_used,
     logs |-> outcome.logs, status_code |-> outcome.status_code]

\* (txn_hash, result), the value mine_block returns on success.
ReturnValue(l) == <<TxnHash(l.txn), ExecutionResultOf(l.outcome)>>

\* let mut block = EthereumBlock::new(...); chain_state.block_number = number;
SetNumber(m) ==
    /\ pc[m] = "set_number"
    /\ block_number' = loc[m].number
    /\ pc' = [pc EXCEPT ![m] = "store_txn"]
    /\ UNCHANGED <<mkvs, blocks, block_number_to_hash, transactions, receipts,
                   lockVars, loc, last_result, snap, succeeded, readerVars, simVars, restVars>>

\* chain_state.transactions.insert(txn_hash, localized_txn);
StoreTxn(m) ==
    /\ pc[m] = "store_txn"
    /\ transactions' = Insert(transactions, TxnHash(loc[m].txn), LocalizedTransactionOf(loc[m]))
    /\ pc' = [pc EXCEPT ![m] = "store_receipt"]
    /\ UNCHANGED <<mkvs, block_number, blocks, block_number_to_hash, receipts,
                   lockVars, loc, last_result, snap, succeeded, readerVars, simVars, restVars>>

\* chain_state.receipts.insert(txn_hash, localized_receipt);
StoreReceipt(m) ==
    /\ pc[m] = "store_receipt"
    /\ receipts' = Insert(receipts, TxnHash(loc[m].txn), LocalizedReceiptOf(loc[m]))
    /\ pc' = [pc EXCEPT ![m] = "store_block"]
    /\ UNCHANGED <<mkvs, block_number, blocks, block_number_to_hash, transactions,
                   lockVars, loc, last_result, snap, succeeded, readerVars, simVars, restVars>>

\* chain_state.blocks.insert(block_hash, block.clone());
StoreBlock(m) ==
    /\ pc[m] = "store_block"
    /\ blocks' = Insert(blocks, NewBlock(loc[m]).hash, StoredBlock(loc[m]))
    /\ pc' = [pc EXCEPT ![m] = "index_block"]
    /\ UNCHANGED <<mkvs, block_number, block_number_to_hash, transactions, receipts,
                   lockVars, loc, last_result, snap, succeeded, readerVars, simVars, restVars>>

\* IndexBlock going on without the insert.
IndexBlock_Skips(m) ==
    /\ pc[m] = "index_block"
    /\ pc' = [pc EXCEPT ![m] = "return"]
    /\ UNCHANGED <<chainVars, lockVars, loc, last_result, snap, succeeded, readerVars,
                   simVars, restVars>>

\* chain_state.block_number_to_hash.insert(number, block_hash);
IndexBlock(m) ==
    /\ pc[m] = "index_block"
    /\ block_number_to_hash' = Insert(block_number_to_hash, loc[m].number, NewBlock(loc[m]).hash)
    /\ pc' = [pc EXCEPT ![m] = "return"]
    /\ UNCHANGED <<mkvs, block_number, blocks, transactions, receipts,
                   lockVars, loc, last_result, snap, succeeded, readerVars, simVars, restVars>>

\* Ok((txn_hash, result)); the write guard is dropped.
Return(m) ==
    /\ pc[m] = "return"
    /\ last_result' = Ok(ReturnValue(loc[m]))
    /\ succeeded' = succeeded + 1
    /\ loc' = [loc EXCEPT ![m] = NoLoc]
    /\ snap' = [snap EXCEPT ![m] = ChainStateNew]
    /\ pc' = [pc EXCEPT ![m] = "idle"]
    /\ ReleaseWrite(m)
    /\ UNCHANGED <<chainVars, readers, readerVars, simVars, restVars>>

----------------------------------------------------------------------------
(* Read queries. Each takes the read guard, clones what it needs and drops *)
(* the guard, all in one step.                                             *)

get_block_by_hash(cs, hash) == Get(cs.blocks, hash)

get_txn_by_hash(cs, hash) == Get(cs.transactions, hash)

get_txn_receipt_by_hash(cs, hash) == Get(cs.receipts, hash)

get_txn_by_number_and_index(cs, number, index) ==
    LET blk == get_block_by_number(cs, number)
    IN  IF blk # None /\ index + 1 \in DOMAIN blk[1].transactions
        THEN Some(blk[1].transactions[index + 1])
        ELSE None

\* best_block_number()
ReadBest(r) ==
    /\ rpc[r] = "idle"
    /\ CanRead
    /\ seen' = [seen EXCEPT ![r] = block_number]
    /\ rpc' = [rpc EXCEPT ![r] = "seen"]
    /\ UNCHANGED <<chainVars, lockVars, minerVars, simVars, restVars>>

\* What the client finds when it looks up the block it was told is the best one:
\* get_block_by_number, the number-to-hash entry behind it,
\* get_txn_by_number_and_index(n, 0) and get_txn_receipt_by_hash of that transaction.
LookupFinds(cs, n) ==
    LET blk == get_block_by_number(cs, n)
        txn == get_txn_by_number_and_index(cs, n, 0)
    IN  [block |-> blk # None,
         index |-> n \in DOMAIN cs.block_number_to_hash,
         txn |-> txn # None /\ get_txn_by_hash(cs, TxnHash(txn[1].signed)) # None,
         receipt |-> txn # None /\ get_txn_receipt_by_hash(cs, TxnHash(txn[1].signed)) # None]

\* The follow-up lookups of the block the client saw.
Lookup(r) ==
    /\ rpc[r] = "seen"
    /\ CanRead
    /\ seen' = [seen EXCEPT ![r] = 0]
    /\ rpc' = [rpc EXCEPT ![r] = "idle"]
    /\ UNCHANGED <<chainVars, lockVars, minerVars, simVars, restVars>>

----------------------------------------------------------------------------
(* simulate_transaction / estimate_gas, on the simulator pool.             *)

NoSloc == [number |-> 0, txn |-> NoTxn, ctx |-> None, holds_guard |-> FALSE]

\* The closure starts: read guard, best block, environment, state without a
\* confidential context. The guard is a local of the closure.
SimStart(s, t) ==
    /\ spc[s] = "idle"
    /\ CanRead
    /\ get_block_by_number(ChainState, block_number) # None
    /\ readers' = readers \cup {s}
    /\ sloc' = [sloc EXCEPT ![s] = [number |-> block_number + 1, txn |-> t,
                                    ctx |-> None, holds_guard |-> TRUE]]
    /\ spc' = [spc EXCEPT ![s] = "exec"]
    /\ UNCHANGED <<chainVars, writer, minerVars, readerVars, restVars>>

\* SimFinish with the simulated state committed to the store.
SimFinish_Commits(s) ==
    /\ spc[s] = "exec"
    /\ readers' = readers \ {s}
    /\ sloc' = [sloc EXCEPT ![s] = NoSloc]
    /\ spc' = [spc EXCEPT ![s] = "idle"]
    /\ mkvs' = [mkvs EXCEPT ![sloc[s].txn.sender] = @ + 1]
    /\ UNCHANGED <<block_number, blocks, block_number_to_hash, transactions, receipts,
                   writer, minerVars, readerVars, restVars>>

\* transact_virtual returns (an Executed or a CallError); the closure ends and
\* its locals, the read guard among them, are dropped. Nothing is committed.
SimFinish(s) ==
    /\ spc[s] = "exec"
    /\ \E executed \in Executions(sloc[s].txn) \cup {NoOutcome} :
         /\ readers' = readers \ {s}
         /\ sloc' = [sloc EXCEPT ![s] = NoSloc]
         /\ spc' = [spc EXCEPT ![s] = "idle"]
    /\ UNCHANGED <<chainVars, writer, minerVars, readerVars, restVars>>

----------------------------------------------------------------------------
(* Block identifiers and the lookups that take one.                        *)

\* BlockId::{Hash(h), Number(n), Latest, Earliest}
IdHash(h) == [kind |-> "Hash", number |-> 0, hash |-> h]
IdNumber(n) == [kind |-> "Number", number |-> n, hash |-> ZeroHash]
IdLatest == [kind |-> "Latest", number |-> 0, hash |-> ZeroHash]
IdEarliest == [kind |-> "Earliest", number |-> 0, hash |-> ZeroHash]

\* A future's outcome: Ok(val), Err(err), or the panic of an expect().
RetOk(v) == [ok |-> TRUE, err |-> "", val |-> v]
RetErr(e) == [ok |-> FALSE, err |-> e, val |-> None]
RetPanic(e) == [ok |-> FALSE, err |-> e, val |-> None]

best_block_number(cs) == cs.block_number

get_latest_block(cs) ==
    LET blk == get_block_by_number(cs, cs.block_number)
    IN  IF blk = None THEN RetPanic("panic: best block must exist") ELSE RetOk(blk[1])

get_block(cs, id) ==
    CASE id.kind = "Hash" -> RetOk(get_block_by_hash(cs, id.hash))
      [] id.kind = "Number" -> RetOk(get_block_by_number(cs, id.number))
      [] id.kind = "Latest" ->
            LET r == get_latest_block(cs) IN IF r.ok THEN RetOk(Some(r.val)) ELSE r
      [] id.kind = "Earliest" -> RetOk(get_block_by_number(cs, 0))

\* get_block_unwrap answering a miss with the latest block.
get_block_unwrap_LatestOnMiss(cs, id) ==
    LET r == get_block(cs, id)
    IN  IF ~r.ok THEN r
        ELSE IF r.val = None THEN get_latest_block(cs)
        ELSE RetOk(r.val[1])

get_block_unwrap(cs, id) ==
    LET r == get_block(cs, id)
    IN  IF ~r.ok THEN r
        ELSE IF r.val = None THEN RetErr("block not found")
        ELSE RetOk(r.val[1])

get_txn_by_block_hash_and_index(cs, block_hash, index) ==
    LET blk == Get(cs.blocks, block_hash)
    IN  IF blk # None /\ index + 1 \in DOMAIN blk[1].transactions
        THEN Some(blk[1].transactions[index + 1])
        ELSE None

\* For Latest the best block number is read first, in a read scope of its own;
\* no block is ever removed, so the lookup that follows finds what it would
\* have found in the same scope.
get_txn(cs, id, index) ==
    CASE id.kind = "Hash" -> RetOk(get_txn_by_block_hash_and_index(cs, id.hash, index))
      [] id.kind = "Number" -> RetOk(get_txn_by_number_and_index(cs, id.number, index))
      [] id.kind = "Latest" ->
            RetOk(get_txn_by_number_and_index(cs, best_block_number(cs), index))
      [] id.kind = "Earliest" -> RetOk(get_txn_by_number_and_index(cs, 0, index))

\* The identifiers and hashes a client asks about: present ones, ones that
\* appear later, and ones that never exist.
LogIds == {IdEarliest, IdLatest, IdNumber(MaxBlocks), IdNumber(MaxBlocks + 1)}
BlockIds == LogIds \cup {IdHash(Keccak(to_string(1))), IdHash(ZeroHash)}
TxnHashes ==
    {TxnHash([sender |-> 1, nonce |-> 0, gas |-> BLOCK_GAS_LIMIT,
              gas_price |-> MIN_GAS_PRICE_GWEI]), ZeroHash}
Indices == {0, 1}

\* lres and qres hold what the client's most recent call returned, and nothing
\* of the calls before it.
NoQres == [kind |-> "none"]
NoFilter == [from_block |-> IdEarliest, to_block |-> IdEarliest, address |-> None]
NoLres == [kind |-> "none", msg |-> "", logs |-> <<>>, filter |-> NoFilter,
           from |-> 0, to |-> 0]
NoLloc == [filter |-> NoFilter, from |-> RetErr(""), to |-> RetErr(""), todo |-> {},
           blocks |-> <<>>]

\* One round of direct lookups by a client: each takes the read guard, clones
\* what it finds and drops the guard.
DirectLookups(id, hash) ==
    /\ lpc = "idle"
    /\ CanRead
    /\ qres' = [kind |-> "got", id |-> id, hash |-> hash,
                block |-> get_block(ChainState, id),
                unwrap |-> get_block_unwrap(ChainState, id),
                txn |-> [i \in Indices |-> get_txn(ChainState, id, i)],
                txn_by_hash |-> RetOk(get_txn_by_hash(ChainState, hash)),
                receipt_by_hash |-> RetOk(get_txn_receipt_by_hash(ChainState, hash))]
    /\ lres' = NoLres
    /\ UNCHANGED <<chainVars, lockVars, minerVars, readerVars, simVars, lpc, lloc, ctxVars, apiVars,
                   subVars>>

----------------------------------------------------------------------------
(* logs.                                                                   *)

\* Filter: the block range and, optionally, the emitting addresses to keep.
Filters == [from_block : LogIds, to_block : LogIds, address : {None, Some({1})}]

\* Filter::matches, on the emitting address.
matches(filter, log) == filter.address = None \/ log.entry \in filter.address[1]

\* BlockRange starting at the genesis block whatever from_block is.
BlockRange_FromGenesis(from_block, to_block) == 0..to_block

\* The numbers stream::iter_ok(from_block..=to_block) runs through.
BlockRange(from_block, to_block) == from_block..to_block

RECURSIVE flat_map_logs(_)
flat_map_logs(blks) ==
    IF blks = <<>> THEN <<>> ELSE Head(blks).logs \o flat_map_logs(Tail(blks))

\* Vec::sort_by on block_number: a stable sort.
RECURSIVE sort_by_block_number(_)
sort_by_block_number(logs) ==
    IF logs = <<>> THEN <<>>
    ELSE LET x == logs[Len(logs)]
             sorted == sort_by_block_number(SubSeq(logs, 1, Len(logs) - 1))
             keep == {i \in 1..Len(sorted) : sorted[i].block_number <= x.block_number}
             k == IF keep = {} THEN 0 ELSE CHOOSE i \in keep : \A j \in keep : j <= i
         IN  SubSeq(sorted, 1, k) \o <<x>> \o SubSeq(sorted, k + 1, Len(sorted))

\* flat_map(blk.logs).filter(filter.matches).collect(), then the sort.
CollectLogs(blks, filter) ==
    sort_by_block_number(SelectSeq(flat_map_logs(blks), LAMBDA log : matches(filter, log)))

LogsErr(l, msg) == [NoLres EXCEPT !.kind = "err", !.msg = msg, !.filter = l.filter]
LogsPanic(l, msg) == [NoLres EXCEPT !.kind = "panic", !.msg = msg, !.filter = l.filter]
LogsOk(l) ==
    [kind |-> "ok", msg |-> "", logs |-> CollectLogs(l.blocks, l.filter),
     filter |-> l.filter, from |-> l.from.val.number, to |-> l.to.val.number]

\* Box::new(self.get_block_unwrap(filter.from_block)): evaluated when the vector
\* of futures is built, in a read scope of its own.
LogsBegin(filter) ==
    /\ lpc = "idle"
    /\ CanRead
    /\ lloc' = [NoLloc EXCEPT !.filter = filter,
                              !.from = get_block_unwrap(ChainState, filter.from_block)]
    /\ lpc' = "to"
    /\ lres' = NoLres
    /\ qres' = NoQres
    /\ UNCHANGED <<chainVars, lockVars, minerVars, readerVars, simVars, ctxVars, apiVars>>

\* logs called by a client directly.
LogsResolveFrom(filter) == LogsBegin(filter) /\ UNCHANGED subVars

\* Box::new(self.get_block_unwrap(filter.to_block)), then join_all: the first
\* error ends the call; otherwise the range from_block..=to_block is set up.
LogsResolveTo ==
    /\ lpc = "to"
    /\ CanRead
    /\ LET to == get_block_unwrap(ChainState, lloc.filter.to_block)
       IN  IF ~lloc.from.ok
           THEN /\ lres' = LogsErr(lloc, lloc.from.err)
                /\ lloc' = NoLloc
                /\ lpc' = "idle"
           ELSE IF ~to.ok
           THEN /\ lres' = LogsErr(lloc, to.err)
                /\ lloc' = NoLloc
                /\ lpc' = "idle"
           ELSE /\ lloc' = [lloc EXCEPT !.to = to,
                                        !.todo = BlockRange(lloc.from.val.number,
                                                            to.val.number)]
                /\ lpc' = "fetch"
                /\ lres' = lres
    /\ UNCHANGED <<chainVars, lockVars, minerVars, readerVars, simVars, qres, ctxVars, apiVars,
                   subVars>>

\* One element of the stream: read guard, get_block_by_number(number).expect(..).
LogsFetch ==
    /\ lpc = "fetch"
    /\ lloc.todo # {}
    /\ CanRead
    /\ LET number == CHOOSE n \in lloc.todo : \A k \in lloc.todo : n <= k
           blk == get_block_by_number(ChainState, number)
       IN  IF blk = None
           THEN /\ lres' = LogsPanic(lloc, "panic: block should exist")
                /\ lloc' = NoLloc
                /\ lpc' = "idle"
           ELSE /\ lloc' = [lloc EXCEPT !.blocks = Append(@, blk[1]),
                                        !.todo = @ \ {number}]
                /\ UNCHANGED <<lpc, lres>>
    /\ UNCHANGED <<chainVars, lockVars, minerVars, readerVars, simVars, qres, ctxVars, apiVars,
                   subVars>>

\* The stream is exhausted: the collected blocks' logs are filtered and sorted.
LogsCollect ==
    /\ lpc = "fetch"
    /\ lloc.todo = {}
    /\ lres' = LogsOk(lloc)
    /\ lloc' = NoLloc
    /\ lpc' = "idle"
    /\ UNCHANGED <<chainVars, lockVars, minerVars, readerVars, simVars, qres, ctxVars, apiVars,
                   subVars>>

----------------------------------------------------------------------------
(* ConfidentialCtx: nonces, keys and the ciphers it calls.                 *)

\* Hash::digest_bytes(buffer).as_ref()[..n]: the first n bytes of the digest.
\* A digest byte is known by the buffer hashed and its position.
DigestPrefix(buffer, n) == [i \in 1..n |-> [digest_of |-> buffer, at |-> i]]

\* BigEndian::write_u32 / read_u32 on the bytes after the tag.
CounterBytes(counter) ==
    [i \in 1..(NONCE_SIZE - NONCE_TAG_SIZE) |->
        (counter \div (256 ^ (NONCE_SIZE - NONCE_TAG_SIZE - i))) % 256]

RECURSIVE BigEndian(_)
BigEndian(bytes) ==
    IF bytes = <<>> THEN 0
    ELSE 256 * BigEndian(SubSeq(bytes, 1, Len(bytes) - 1)) + bytes[Len(bytes)]

\* Nonce::new(bytes): the tag, the counter, and the counter it started from,
\* to which it must not return.
NonceNew(bytes) ==
    LET counter == BigEndian(SubSeq(bytes, NONCE_TAG_SIZE + 1, NONCE_SIZE))
    IN  [tag |-> SubSeq(bytes, 1, NONCE_TAG_SIZE), counter |-> counter, start |-> counter]

\* The NONCE_SIZE bytes of a nonce.
NonceBytes(nonce) == nonce.tag \o CounterBytes(nonce.counter)

\* increment leaving the counter where it is.
increment_Stuck(nonce) == [ok |-> TRUE, nonce |-> nonce]

\* Nonce::increment: the counter goes up by one, wrapping within its bytes; the
\* call fails, leaving the nonce as it is, when that would return to the start value.
increment(nonce) ==
    LET counter == (nonce.counter + 1) % (CounterMax + 1)
    IN  IF counter = nonce.start
        THEN [ok |-> FALSE, nonce |-> nonce]
        ELSE [ok |-> TRUE, nonce |-> [nonce EXCEPT !.counter = counter]]

Addresses == {1, 2}
PrevHashes == {Keccak(to_string(n)) : n \in 0..1}
PeerKeys == {<<40>>, <<41>>}
Plaintexts == {<<5>>}
SessionTag == [i \in 1..NONCE_TAG_SIZE |-> 7]

\* key_manager.get_or_create_keys(ContractId::from(keccak(contract))).
ContractKeyOf(address) ==
    LET contract_id == Keccak(<<address>>)
    IN  [input_pk |-> <<30>> \o contract_id, input_sk |-> <<31>> \o contract_id,
         state_key |-> <<32>> \o contract_id]

\* DeoxysII::new(key) and seal: ciphertext || tag, Len(data) + TAG_SIZE bytes,
\* each known by the key, the nonce, the data and its position.
DeoxysIINew(state_key) == [key |-> state_key]
seal(d2, nonce, data) ==
    [i \in 1..(Len(data) + TAG_SIZE) |->
        [key |-> d2.key, nonce |-> nonce, data |-> data, at |-> i]]

\* crypto::encrypt: the payload boxed to the peer under the contract's key pair.
crypto_encrypt(data, nonce, peer_public_key, public_key, secret_key) ==
    [wellformed |-> TRUE, sender |-> public_key, to |-> peer_public_key,
     nonce |-> nonce, plaintext |-> data]

\* crypto::decrypt: opens a payload boxed to the holder of secret_key.
crypto_decrypt(payload, secret_key) ==
    IF payload.wellformed /\ \E a \in Addresses :
           ContractKeyOf(a).input_sk = secret_key /\ ContractKeyOf(a).input_pk = payload.to
    THEN [ok |-> TRUE, err |-> "", plaintext |-> payload.plaintext,
          peer_public_key |-> payload.sender, nonce |-> payload.nonce]
    ELSE [ok |-> FALSE, err |-> "invalid nonce or public key", plaintext |-> <<>>,
          peer_public_key |-> <<>>, nonce |-> payload.nonce]

----------------------------------------------------------------------------
(* ConfidentialCtx: its operations, each giving the context after the call *)
(* and the value returned.                                                 *)

AddressOf(c) == IF c.contract = None THEN None ELSE Some(c.contract[1].address)

\* swap_contract deriving the storage nonce from the address alone.
swap_contract_AddressOnly(c, contract) ==
    [ctx |-> [c EXCEPT !.contract = contract,
                       !.d2 = IF contract = None THEN None
                              ELSE Some(DeoxysIINew(contract[1].key.state_key)),
                       !.next_storage_nonce =
                           IF contract = None THEN None
                           ELSE Some(NonceNew(
                                    DigestPrefix(<<contract[1].address>>, NONCE_TAG_SIZE)
                                    \o CounterBytes(0)))],
     old |-> AddressOf(c)]

\* swap_contract leaving the cipher instance in place when the contract is cleared.
swap_contract_KeepsCipher(c, contract) ==
    [ctx |-> [c EXCEPT !.contract = contract,
                       !.d2 = IF contract = None THEN c.d2
                              ELSE Some(DeoxysIINew(contract[1].key.state_key)),
                       !.next_storage_nonce =
                           IF contract = None THEN None
                           ELSE Some(NonceNew(
                                    DigestPrefix(c.prev_block_hash \o <<contract[1].address>>,
                                                 NONCE_TAG_SIZE)
                                    \o [i \in 1..(NONCE_SIZE - NONCE_TAG_SIZE) |-> 0]))],
     old |-> AddressOf(c)]

\* swap_contract ending the session with the peer.
swap_contract_DropsSession(c, contract) ==
    [ctx |-> [c EXCEPT !.contract = contract,
                       !.peer_public_key = None,
                       !.next_nonce = None,
                       !.d2 = IF contract = None THEN None
                              ELSE Some(DeoxysIINew(contract[1].key.state_key)),
                       !.next_storage_nonce =
                           IF contract = None THEN None
                           ELSE Some(NonceNew(
                                    DigestPrefix(c.prev_block_hash \o <<contract[1].address>>,
                                                 NONCE_TAG_SIZE)
                                    \o [i \in 1..(NONCE_SIZE - NONCE_TAG_SIZE) |-> 0]))],
     old |-> AddressOf(c)]

swap_contract(c, contract) ==
    [ctx |-> [c EXCEPT !.contract = contract,
                       !.d2 = IF contract = None THEN None
                              ELSE Some(DeoxysIINew(contract[1].key.state_key)),
                       !.next_storage_nonce =
                           IF contract = None THEN None
                           ELSE Some(NonceNew(
                                    DigestPrefix(c.prev_block_hash \o <<contract[1].address>>,
                                                 NONCE_TAG_SIZE)
                                    \o [i \in 1..(NONCE_SIZE - NONCE_TAG_SIZE) |-> 0]))],
     old |-> AddressOf(c)]

\* is_encrypting answering for the activation flag alone.
is_encrypting_ActivatedOnly(c) == c.activated

activated(c) == c.activated
is_encrypting(c) == activated(c) /\ c.contract # None
peer(c) == IF c.peer_public_key = None THEN None ELSE Some(c.peer_public_key[1])

\* activate returning the address it has just made active.
activate_ReturnsNew(c, contract) ==
    LET swapped ==
            swap_contract([c EXCEPT !.activated = TRUE],
                          IF contract = None THEN None
                          ELSE Some([address |-> contract[1],
                                     key |-> ContractKeyOf(contract[1])]))
    IN  [ctx |-> swapped.ctx, ret |-> RetOk(contract)]

activate(c, contract) ==
    LET swapped ==
            swap_contract([c EXCEPT !.activated = TRUE],
                          IF contract = None THEN None
                          ELSE Some([address |-> contract[1],
                                     key |-> ContractKeyOf(contract[1])]))
    IN  [ctx |-> swapped.ctx, ret |-> RetOk(swapped.old)]

\* deactivate leaving the peer's public key in place.
deactivate_KeepsPeer(c) ==
    [ctx |-> [c EXCEPT !.contract = None, !.next_nonce = None,
                       !.activated = FALSE, !.d2 = None, !.next_storage_nonce = None],
     ret |-> RetOk(None)]

deactivate(c) ==
    [ctx |-> [c EXCEPT !.peer_public_key = None, !.contract = None, !.next_nonce = None,
                       !.activated = FALSE, !.d2 = None, !.next_storage_nonce = None],
     ret |-> RetOk(None)]

\* The payloads a peer may send: boxed to a contract by a peer, carrying a nonce
\* whose counter is low or at its maximum; or bytes that open under no key.
Unopenable ==
    [wellformed |-> FALSE, sender |-> <<>>, to |-> <<>>,
     nonce |-> SessionTag \o CounterBytes(0), plaintext |-> <<>>]

InboundPayloads ==
    {Unopenable} \cup
    [wellformed : {TRUE}, sender : PeerKeys,
     to : {ContractKeyOf(a).input_pk : a \in Addresses},
     nonce : {SessionTag \o CounterBytes(c) : c \in {0, CounterMax}},
     plaintext : Plaintexts]

\* encrypt_session forgetting the peer when it refuses.
encrypt_session_ForgetsPeer(c, data) ==
    IF c.peer_public_key = None \/ c.contract = None \/ c.next_nonce = None
    THEN [ctx |-> [c EXCEPT !.peer_public_key = None],
          ret |-> RetErr("must have key pair of a contract and peer and a next nonce")]
    ELSE LET contract_key == c.contract[1].key
             encrypted_payload ==
                 crypto_encrypt(data, NonceBytes(c.next_nonce[1]), c.peer_public_key[1],
                                contract_key.input_pk, contract_key.input_sk)
             incremented == increment(c.next_nonce[1])
         IN  IF ~incremented.ok
             THEN [ctx |-> c, ret |-> RetErr("nonce overflow")]
             ELSE [ctx |-> [c EXCEPT !.next_nonce = Some(incremented.nonce)],
                   ret |-> RetOk(encrypted_payload)]

encrypt_session(c, data) ==
    IF c.peer_public_key = None \/ c.contract = None \/ c.next_nonce = None
    THEN [ctx |-> c,
          ret |-> RetErr("must have key pair of a contract and peer and a next nonce")]
    ELSE LET contract_key == c.contract[1].key
             encrypted_payload ==
                 crypto_encrypt(data, NonceBytes(c.next_nonce[1]), c.peer_public_key[1],
                                contract_key.input_pk, contract_key.input_sk)
             incremented == increment(c.next_nonce[1])
         IN  IF ~incremented.ok
             THEN [ctx |-> c, ret |-> RetErr("nonce overflow")]
             ELSE [ctx |-> [c EXCEPT !.next_nonce = Some(incremented.nonce)],
                   ret |-> RetOk(encrypted_payload)]

\* decrypt_session storing the payload's nonce as it came.
decrypt_session_KeepsNonce(c, encrypted_payload) ==
    IF c.contract = None
    THEN [ctx |-> c, ret |-> RetPanic("panic: called Option::unwrap() on a None value")]
    ELSE LET decryption == crypto_decrypt(encrypted_payload, c.contract[1].key.input_sk)
         IN  IF ~decryption.ok
             THEN [ctx |-> c, ret |-> RetErr(decryption.err)]
             ELSE [ctx |-> [c EXCEPT !.peer_public_key = Some(decryption.peer_public_key),
                                     !.next_nonce = Some(NonceNew(decryption.nonce))],
                   ret |-> RetOk(decryption.plaintext)]

\* decrypt_session ending the session when the payload does not open.
decrypt_session_ResetsOnError(c, encrypted_payload) ==
    IF c.contract = None
    THEN [ctx |-> c, ret |-> RetPanic("panic: called Option::unwrap() on a None value")]
    ELSE LET decryption == crypto_decrypt(encrypted_payload, c.contract[1].key.input_sk)
             with_peer == [c EXCEPT !.peer_public_key = Some(decryption.peer_public_key)]
             incremented == increment(NonceNew(decryption.nonce))
         IN  IF ~decryption.ok
             THEN [ctx |-> [c EXCEPT !.peer_public_key = None, !.next_nonce = None],
                   ret |-> RetErr(decryption.err)]
             ELSE IF ~incremented.ok
             THEN [ctx |-> with_peer, ret |-> RetErr("nonce overflow")]
             ELSE [ctx |-> [with_peer EXCEPT !.next_nonce = Some(incremented.nonce)],
                   ret |-> RetOk(decryption.plaintext)]

\* The peer key is stored before the nonce is incremented, the nonce after.
decrypt_session(c, encrypted_payload) ==
    IF c.contract = None
    THEN [ctx |-> c, ret |-> RetPanic("panic: called Option::unwrap() on a None value")]
    ELSE LET decryption == crypto_decrypt(encrypted_payload, c.contract[1].key.input_sk)
             with_peer == [c EXCEPT !.peer_public_key = Some(decryption.peer_public_key)]
             incremented == increment(NonceNew(decryption.nonce))
         IN  IF ~decryption.ok
             THEN [ctx |-> c, ret |-> RetErr(decryption.err)]
             ELSE IF ~incremented.ok
             THEN [ctx |-> with_peer, ret |-> RetErr("nonce overflow")]
             ELSE [ctx |-> [with_peer EXCEPT !.next_nonce = Some(incremented.nonce)],
                   ret |-> RetOk(decryption.plaintext)]

\* ciphertext || tag || nonce; the nonce is incremented after the seal.
encrypt_storage_value(c, data) ==
    IF c.next_storage_nonce = None
    THEN [ctx |-> c,
          ret |-> RetPanic("panic: Should always have a storage encryption nonce.")]
    ELSE IF c.d2 = None
    THEN [ctx |-> c,
          ret |-> RetPanic("panic: Should always have a Deoxys-II instance to encrypt storage")]
    ELSE LET nonce == NonceBytes(c.next_storage_nonce[1])
             ciphertext == seal(c.d2[1], nonce, data) \o nonce
             incremented == increment(c.next_storage_nonce[1])
         IN  IF ~incremented.ok
             THEN [ctx |-> c, ret |-> RetErr("nonce overflow")]
             ELSE [ctx |-> [c EXCEPT !.next_storage_nonce = Some(incremented.nonce)],
                   ret |-> RetOk(ciphertext)]

\* The test-only decrypt: opens transaction data without touching the context.
decrypt(c, encrypted_tx_data) ==
    IF c.contract = None
    THEN [ctx |-> c,
          ret |-> RetErr("The confidential context must have a contract key when opening encrypted transaction data")]
    ELSE LET decryption == crypto_decrypt(encrypted_tx_data, c.contract[1].key.input_sk)
         IN  IF ~decryption.ok
             THEN [ctx |-> c, ret |-> RetErr(decryption.err)]
             ELSE [ctx |-> c, ret |-> RetOk(decryption.plaintext)]

\* DeoxysII::open: gives back the data sealed under this key and nonce, and
\* fails on anything else.
open(d2, nonce, ciphertext) ==
    LET data == ciphertext[1].data
    IN  IF ciphertext = seal(d2, nonce, data)
        THEN [ok |-> TRUE, plaintext |-> data]
        ELSE [ok |-> FALSE, plaintext |-> <<>>]

ZeroNonce == [i \in 1..NONCE_SIZE |-> 0]

\* encrypt_storage_key sealing under the storage nonce of the moment.
encrypt_storage_key_StorageNonce(c, data) ==
    IF c.d2 = None
    THEN [ctx |-> c,
          ret |-> RetPanic("panic: Should always have a Deoxys-II instance to encrypt storage")]
    ELSE [ctx |-> c,
          ret |-> RetOk(seal(c.d2[1], NonceBytes(c.next_storage_nonce[1]), data))]

encrypt_storage_key(c, data) ==
    IF c.d2 = None
    THEN [ctx |-> c,
          ret |-> RetPanic("panic: Should always have a Deoxys-II instance to encrypt storage")]
    ELSE [ctx |-> c, ret |-> RetOk(seal(c.d2[1], ZeroNonce, data))]

\* decrypt_storage_value opening under the context's storage nonce.
decrypt_storage_value_CtxNonce(c, data) ==
    IF Len(data) < TAG_SIZE + NONCE_SIZE
    THEN [ctx |-> c, ret |-> RetErr("truncated ciphertext")]
    ELSE IF c.d2 = None
    THEN [ctx |-> c,
          ret |-> RetPanic("panic: Should always have a Deoxys-II instance to decrypt storage")]
    ELSE LET nonce_offset == Len(data) - NONCE_SIZE
             ciphertext == SubSeq(data, 1, nonce_offset)
             opened == open(c.d2[1], NonceBytes(c.next_storage_nonce[1]), ciphertext)
         IN  IF ~opened.ok
             THEN [ctx |-> c, ret |-> RetPanic("panic: called Result::unwrap() on an Err value")]
             ELSE [ctx |-> c, ret |-> RetOk(opened.plaintext)]

\* decrypt_storage_value refusing an input of exactly TAG_SIZE + NONCE_SIZE bytes.
decrypt_storage_value_Inclusive(c, data) ==
    IF Len(data) <= TAG_SIZE + NONCE_SIZE
    THEN [ctx |-> c, ret |-> RetErr("truncated ciphertext")]
    ELSE IF c.d2 = None
    THEN [ctx |-> c,
          ret |-> RetPanic("panic: Should always have a Deoxys-II instance to decrypt storage")]
    ELSE LET nonce_offset == Len(data) - NONCE_SIZE
             nonce == SubSeq(data, nonce_offset + 1, Len(data))
             ciphertext == SubSeq(data, 1, nonce_offset)
             opened == open(c.d2[1], nonce, ciphertext)
         IN  IF ~opened.ok
             THEN [ctx |-> c, ret |-> RetPanic("panic: called Result::unwrap() on an Err value")]
             ELSE [ctx |-> c, ret |-> RetOk(opened.plaintext)]

\* The nonce is the tail of ciphertext || tag || nonce; open's failure is unwrapped.
decrypt_storage_value(c, data) ==
    IF Len(data) < TAG_SIZE + NONCE_SIZE
    THEN [ctx |-> c, ret |-> RetErr("truncated ciphertext")]
    ELSE IF c.d2 = None
    THEN [ctx |-> c,
          ret |-> RetPanic("panic: Should always have a Deoxys-II instance to decrypt storage")]
    ELSE LET nonce_offset == Len(data) - NONCE_SIZE
             nonce == SubSeq(data, nonce_offset + 1, Len(data))
             ciphertext == SubSeq(data, 1, nonce_offset)
             opened == open(c.d2[1], nonce, ciphertext)
         IN  IF ~opened.ok
             THEN [ctx |-> c, ret |-> RetPanic("panic: called Result::unwrap() on an Err value")]
             ELSE [ctx |-> c, ret |-> RetOk(opened.plaintext)]

----------------------------------------------------------------------------
(* The calls the engine makes on the ConfidentialCtx of one execution.     *)

NoCret == [op |-> "none", arg |-> None, ret |-> RetOk(None)]
Called(op, arg, r) == [op |-> op, arg |-> arg, ret |-> r.ret]
CtxFrame == <<chainVars, lockVars, minerVars, readerVars, simVars, queryVars, apiVars, subVars>>

\* mine_block builds the context of the block it executes.
CtxNew(prev_block_hash) ==
    /\ ctx' = ConfidentialCtxNew(prev_block_hash)
    /\ cret' = [op |-> "new", arg |-> prev_block_hash, ret |-> RetOk(None)]
    /\ session_use' = None
    /\ established' = FALSE
    /\ storage_use' = None
    /\ UNCHANGED <<stored, CtxFrame>>

CtxActivate(contract) ==
    /\ cret.op # "none"
    /\ ctx' = activate(ctx, contract).ctx
    /\ cret' = Called("activate", contract, activate(ctx, contract))
    /\ UNCHANGED <<session_use, established, stored, storage_use, CtxFrame>>

CtxDeactivate ==
    /\ cret.op # "none"
    /\ ctx' = deactivate(ctx).ctx
    /\ cret' = Called("deactivate", None, deactivate(ctx))
    /\ UNCHANGED <<session_use, established, stored, storage_use, CtxFrame>>

CtxEncryptSession(data) ==
    /\ cret.op # "none"
    /\ LET r == encrypt_session(ctx, data)
       IN  /\ ctx' = r.ctx
           /\ cret' = Called("encrypt_session", data, r)
           /\ session_use' =
                 IF r.ret.ok
                 THEN Some([peer |-> r.ret.val.to, contract |-> r.ret.val.sender,
                            nonce |-> r.ret.val.nonce])
                 ELSE session_use
    /\ UNCHANGED <<established, stored, storage_use, CtxFrame>>

CtxDecryptSession(encrypted_payload) ==
    /\ cret.op # "none"
    /\ LET r == decrypt_session(ctx, encrypted_payload)
       IN  /\ ctx' = r.ctx
           /\ cret' = Called("decrypt_session", encrypted_payload, r)
           /\ established' = (established \/ r.ret.ok)
    /\ UNCHANGED <<session_use, stored, storage_use, CtxFrame>>

\* The contract and the nonce an encrypt_storage_value sealed under.
StorageUse(c) ==
    [address |-> c.contract[1].address, nonce |-> NonceBytes(c.next_storage_nonce[1])]
FirstStorageUse(c, r) ==
    IF r.ret.ok /\ storage_use = None THEN Some(StorageUse(c)) ELSE storage_use

CtxEncryptStorageValue(data) ==
    /\ cret.op # "none"
    /\ LET r == encrypt_storage_value(ctx, data)
       IN  /\ ctx' = r.ctx
           /\ cret' = Called("encrypt_storage_value", data, r)
    /\ UNCHANGED <<session_use, established, stored, storage_use, CtxFrame>>

\* encrypt_storage_value, the first use of a storage nonce on this context
\* being remembered.
CtxWriteStorage(data) ==
    /\ cret.op # "none"
    /\ LET r == encrypt_storage_value(ctx, data)
       IN  /\ ctx' = r.ctx
           /\ cret' = Called("encrypt_storage_value", data, r)
           /\ storage_use' = FirstStorageUse(ctx, r)
    /\ UNCHANGED <<session_use, established, stored, CtxFrame>>

CtxDecrypt(encrypted_tx_data) ==
    /\ cret.op # "none"
    /\ LET r == decrypt(ctx, encrypted_tx_data)
       IN  /\ ctx' = r.ctx
           /\ cret' = Called("decrypt", encrypted_tx_data, r)
    /\ UNCHANGED <<session_use, established, stored, storage_use, CtxFrame>>

CtxEncryptStorageKey(data) ==
    /\ cret.op # "none"
    /\ LET r == encrypt_storage_key(ctx, data)
       IN  /\ ctx' = r.ctx
           /\ cret' = Called("encrypt_storage_key", data, r)
    /\ UNCHANGED <<session_use, established, stored, storage_use, CtxFrame>>

\* The values the engine writes to contract storage, and what it may read back:
\* the value under observation, whole, cut short or altered, or nothing at all.
StoragePlaintexts == {<<>>, <<5>>}
Truncated(data) == SubSeq(data, 1, TAG_SIZE + NONCE_SIZE - 1)
Tampered(data) == [data EXCEPT ![1].at = 0]
StorageReads == {"nothing", "whole", "truncated", "tampered"}
StorageInput(read) ==
    CASE read = "nothing" -> <<>>
      [] read = "whole" -> stored[1].ciphertext
      [] read = "truncated" -> Truncated(stored[1].ciphertext)
      [] read = "tampered" -> Tampered(stored[1].ciphertext)

\* A storage write whose result is the value under observation from then on.
CtxSetStorage(data) ==
    /\ cret.op # "none"
    /\ LET r == encrypt_storage_value(ctx, data)
       IN  /\ ctx' = r.ctx
           /\ cret' = Called("encrypt_storage_value", data, r)
           /\ stored' =
                 IF r.ret.ok
                 THEN Some([address |-> ctx.contract[1].address, plaintext |-> data,
                            ciphertext |-> r.ret.val])
                 ELSE stored
    /\ UNCHANGED <<session_use, established, storage_use, CtxFrame>>

CtxDecryptStorageValue(read) ==
    /\ cret.op # "none"
    /\ read = "nothing" \/ stored # None
    /\ LET data == StorageInput(read)
           r == decrypt_storage_value(ctx, data)
       IN  /\ ctx' = r.ctx
           /\ cret' = Called("decrypt_storage_value", data, r)
    /\ UNCHANGED <<session_use, established, stored, storage_use, CtxFrame>>

----------------------------------------------------------------------------
(* rpc_apis: the API sets and their parsing. A string is the sequence of   *)
(* its pieces: a comma, a dash, or a word without either.                  *)

Web3 == "Web3"
Net == "Net"
Eth == "Eth"
EthPubSub == "EthPubSub"
Oasis == "Oasis"

\* <Api as FromStr>::from_str.
ApiFromStr(str) ==
    CASE str = <<"web3">> -> [ok |-> TRUE, api |-> Web3, err |-> <<>>]
      [] str = <<"net">> -> [ok |-> TRUE, api |-> Net, err |-> <<>>]
      [] str = <<"eth">> -> [ok |-> TRUE, api |-> Eth, err |-> <<>>]
      [] str = <<"pubsub">> -> [ok |-> TRUE, api |-> EthPubSub, err |-> <<>>]
      [] str = <<"oasis">> -> [ok |-> TRUE, api |-> Oasis, err |-> <<>>]
      [] OTHER -> [ok |-> FALSE, api |-> "", err |-> <<"Unknown api: ">> \o str]

ApiSetUnsafeContext == [kind |-> "UnsafeContext", apis |-> {}]
ApiSetSafeContext == [kind |-> "SafeContext", apis |-> {}]
ApiSetAll == [kind |-> "All", apis |-> {}]
ApiSetList(apis) == [kind |-> "List", apis |-> apis]
ApiSetDefault == ApiSetUnsafeContext

list_apis(set) ==
    LET public_list == {Web3, Net, Eth, EthPubSub, Oasis}
    IN  IF set.kind = "List" THEN set.apis ELSE public_list

\* <ApiSet as PartialEq>::eq.
ApiSetEq(a, b) == list_apis(a) = list_apis(b)

\* str::split(','): the pieces between the commas, empty ones included.
RECURSIVE Split(_)
Split(str) ==
    IF \A i \in 1..Len(str) : str[i] # ","
    THEN <<str>>
    ELSE LET i == CHOOSE j \in 1..Len(str) :
                      str[j] = "," /\ \A k \in 1..(j - 1) : str[k] # ","
         IN  <<SubSeq(str, 1, i - 1)>> \o Split(SubSeq(str, i + 1, Len(str)))

\* One turn of the loop with "-name" of an unknown name passed over.
ParseItem_SkipsUnknownRemoval(apis, item) ==
    CASE item = <<"all">> -> [ok |-> TRUE, apis |-> apis \cup list_apis(ApiSetAll), err |-> <<>>]
      [] item = <<"safe">> ->
            [ok |-> TRUE, apis |-> apis \cup list_apis(ApiSetUnsafeContext), err |-> <<>>]
      [] item # <<>> /\ item[1] = "-" ->
            LET parsed == ApiFromStr(Tail(item))
            IN  IF ~parsed.ok THEN [ok |-> TRUE, apis |-> apis, err |-> <<>>]
                ELSE [ok |-> TRUE, apis |-> apis \ {parsed.api}, err |-> <<>>]
      [] OTHER ->
            LET parsed == ApiFromStr(item)
            IN  IF ~parsed.ok THEN [ok |-> FALSE, apis |-> apis, err |-> parsed.err]
                ELSE [ok |-> TRUE, apis |-> apis \cup {parsed.api}, err |-> <<>>]

\* One turn of the loop of <ApiSet as FromStr>::from_str.
ParseItem(apis, item) ==
    CASE item = <<"all">> -> [ok |-> TRUE, apis |-> apis \cup list_apis(ApiSetAll), err |-> <<>>]
      [] item = <<"safe">> ->
            [ok |-> TRUE, apis |-> apis \cup list_apis(ApiSetUnsafeContext), err |-> <<>>]
      [] item # <<>> /\ item[1] = "-" ->
            LET parsed == ApiFromStr(Tail(item))
            IN  IF ~parsed.ok THEN [ok |-> FALSE, apis |-> apis, err |-> parsed.err]
                ELSE [ok |-> TRUE, apis |-> apis \ {parsed.api}, err |-> <<>>]
      [] OTHER ->
            LET parsed == ApiFromStr(item)
            IN  IF ~parsed.ok THEN [ok |-> FALSE, apis |-> apis, err |-> parsed.err]
                ELSE [ok |-> TRUE, apis |-> apis \cup {parsed.api}, err |-> <<>>]

\* The strings given to the parser: up to MaxItems items joined by commas.
ItemChoices ==
    {<<"all">>, <<"safe">>, <<"web3">>, <<"net">>, <<"eth">>, <<"pubsub">>, <<"oasis">>,
     <<"-", "eth">>, <<"-", "web3">>, <<"rp">>, <<>>, <<"-", "rp">>, <<"-", "all">>}

RECURSIVE Join(_)
Join(items) ==
    IF Len(items) = 1 THEN items[1]
    ELSE items[1] \o <<",">> \o Join(Tail(items))

ItemLists == UNION {[1..n -> ItemChoices] : n \in 1..MaxItems}

\* given: the items the input string was written from.
ApiIdle == [pc |-> "idle", given |-> <<>>, input |-> <<>>, items |-> <<>>, apis |-> {},
            ok |-> FALSE, err |-> <<>>, set |-> ApiSetDefault]
ApiFrame == <<chainVars, lockVars, minerVars, readerVars, simVars, queryVars, ctxVars, subVars>>

\* let mut apis = HashSet::new(); s.split(',')
ApiSplit ==
    /\ api.pc = "start"
    /\ api' = [api EXCEPT !.pc = "loop", !.items = Split(api.input), !.apis = {}]
    /\ UNCHANGED ApiFrame

\* The loop body on the next item; an unknown name ends the call with its error.
ApiParseItem ==
    /\ api.pc = "loop"
    /\ api.items # <<>>
    /\ LET r == ParseItem(api.apis, Head(api.items))
       IN  api' = IF r.ok
                  THEN [api EXCEPT !.items = Tail(api.items), !.apis = r.apis]
                  ELSE [api EXCEPT !.pc = "done", !.ok = FALSE, !.err = r.err]
    /\ UNCHANGED ApiFrame

\* Ok(ApiSet::List(apis))
ApiReturn ==
    /\ api.pc = "loop"
    /\ api.items = <<>>
    /\ api' = [api EXCEPT !.pc = "done", !.ok = TRUE, !.set = ApiSetList(api.apis)]
    /\ UNCHANGED ApiFrame

----------------------------------------------------------------------------
(* EthFilterClient: block filters and log filters.                         *)

\* PollFilter::Block(number) and PollFilter::Logs(number, _, filter); created is
\* the number of the block that was the latest when the filter was made,
\* polled the number of filter_changes calls answered, best the chain's best
\* block number when the last of them was answered.
NoPoll == [kind |-> "none", number |-> 0, filter |-> NoFilter, created |-> 0,
           polled |-> 0, best |-> None]
NoFloc == [request |-> "none", filter |-> NoFilter, blk |-> RetErr(""), todo |-> {},
           hashes |-> <<>>]
NoFres == [kind |-> "none", of |-> "none", msg |-> "", hashes |-> <<>>, logs |-> <<>>,
           at |-> 0, quiet |-> FALSE]

\* The log filters a client installs: every address, or address 1 alone.
InstalledFilters == {f \in Filters : f.from_block = IdEarliest /\ f.to_block = IdLatest}

\* limit_logs(logs, limit): the last limit entries, all of them without a limit.
limit_logs(logs, limit) ==
    IF limit = None \/ Len(logs) <= limit[1] THEN logs
    ELSE SubSeq(logs, Len(logs) - limit[1] + 1, Len(logs))

\* PollFilter::Block(blk.number_u64() + 1)
BlockPoll(blk) ==
    [NoPoll EXCEPT !.kind = "Block", !.number = blk.number + 1, !.created = blk.number]

\* PollFilter::Logs(blk.number_u64(), Default::default(), filter)
LogsPoll(blk, filter) ==
    [NoPoll EXCEPT !.kind = "Logs", !.number = blk.number, !.filter = filter,
                   !.created = blk.number]

\* new_filter and new_block_filter: self.blockchain.get_latest_block().
FilterNew(request, filter) ==
    /\ fpc = "idle"
    /\ polls.kind = "none"
    /\ CanRead
    /\ floc' = [NoFloc EXCEPT !.request = request, !.filter = filter,
                              !.blk = get_latest_block(ChainState)]
    /\ fpc' = "create"
    /\ UNCHANGED <<polls, fres, reported>>
    /\ UNCHANGED <<chainVars, lockVars, minerVars, readerVars, simVars, queryVars, ctxVars,
                   apiVars, brokerVars>>

\* .map(move |blk| polls.lock().create_poll(..))
FilterCreate ==
    /\ fpc = "create"
    /\ polls' = IF ~floc.blk.ok THEN polls
                ELSE IF floc.request = "block" THEN BlockPoll(floc.blk.val)
                ELSE LogsPoll(floc.blk.val, floc.filter)
    /\ floc' = NoFloc
    /\ fpc' = "idle"
    /\ UNCHANGED <<fres, reported>>
    /\ UNCHANGED <<chainVars, lockVars, minerVars, readerVars, simVars, queryVars, ctxVars,
                   apiVars, brokerVars>>

\* filter_changes: self.blockchain.get_latest_block().
FilterChangesLatest ==
    /\ fpc = "idle"
    /\ polls.kind # "none"
    /\ polls.polled < MaxPolls
    /\ CanRead
    /\ floc' = [NoFloc EXCEPT !.request = "changes", !.blk = get_latest_block(ChainState)]
    /\ fpc' = "match"
    /\ UNCHANGED <<polls, fres, reported>>
    /\ UNCHANGED <<chainVars, lockVars, minerVars, readerVars, simVars, queryVars, ctxVars,
                   apiVars, brokerVars>>

\* The answer of a filter_changes call; at is the number of the latest block
\* the call was given, quiet tells that no block was mined since the call
\* before it was answered.
FilterAnswer(kind, msg, hashes, logs) ==
    /\ fres' = [kind |-> kind, of |-> polls.kind, msg |-> msg, hashes |-> hashes,
                logs |-> logs,
                at |-> IF floc.blk.ok THEN floc.blk.val.number ELSE 0,
                quiet |-> polls.best # None /\ polls.best = Some(block_number)]
    /\ reported' = reported \o hashes \o logs
    /\ polls' = [polls EXCEPT !.polled = @ + 1, !.best = Some(block_number)]
    /\ floc' = NoFloc
    /\ fpc' = "idle"

\* Some(PollFilter::Block(ref mut number)): the stream over *number..=blk.number
\* is set up, then *number = blk.number_u64().
MatchBlock(blk) ==
    /\ polls' = [polls EXCEPT !.number = blk.number]
    /\ floc' = [floc EXCEPT !.todo = polls.number..blk.number]
    /\ fpc' = "stream"
    /\ UNCHANGED <<fres, reported>>

\* Some(PollFilter::Logs(ref mut block_number, _, ref filter)): from_block is
\* Number(*block_number), to_block is Latest, then *block_number = blk.number + 1.
MatchLogs(blk) ==
    /\ polls' = [polls EXCEPT !.number = blk.number + 1]
    /\ floc' = [floc EXCEPT !.filter = [polls.filter EXCEPT
                                           !.from_block = IdNumber(polls.number),
                                           !.to_block = IdLatest]]
    /\ fpc' = "logs"
    /\ UNCHANGED <<fres, reported>>

\* .and_then(move |blk| { let mut polls = polls.lock(); match polls.poll_mut(..) .. })
FilterChangesMatch ==
    /\ fpc = "match"
    /\ IF ~floc.blk.ok THEN FilterAnswer("err", floc.blk.err, <<>>, <<>>)
       ELSE IF polls.kind = "Block" THEN MatchBlock(floc.blk.val)
       ELSE MatchLogs(floc.blk.val)
    /\ UNCHANGED <<chainVars, lockVars, minerVars, readerVars, simVars, queryVars, ctxVars,
                   apiVars, brokerVars>>

\* One element of the Block arm's stream: get_block_by_number(number), an
\* absent block ending the call with "block not found".
FilterChangesBlock ==
    /\ fpc = "stream"
    /\ floc.todo # {}
    /\ CanRead
    /\ LET number == CHOOSE n \in floc.todo : \A k \in floc.todo : n <= k
           blk == get_block_by_number(ChainState, number)
       IN  IF blk = None
           THEN FilterAnswer("err", "block not found", <<>>, <<>>)
           ELSE /\ floc' = [floc EXCEPT !.hashes = Append(@, blk[1].hash),
                                        !.todo = @ \ {number}]
                /\ UNCHANGED <<polls, fpc, fres, reported>>
    /\ UNCHANGED <<chainVars, lockVars, minerVars, readerVars, simVars, queryVars, ctxVars,
                   apiVars, brokerVars>>

\* .collect().map(|hashes| FilterChanges::Hashes(hashes))
FilterChangesHashes ==
    /\ fpc = "stream"
    /\ floc.todo = {}
    /\ FilterAnswer("hashes", "", floc.hashes, <<>>)
    /\ UNCHANGED <<chainVars, lockVars, minerVars, readerVars, simVars, queryVars, ctxVars,
                   apiVars, brokerVars>>

\* blockchain.clone().logs(filter)
FilterChangesLogs ==
    /\ fpc = "logs"
    /\ LogsBegin(floc.filter)
    /\ fpc' = "wait"
    /\ UNCHANGED <<polls, floc, fres, reported, brokerVars>>

\* .map_err(jsonrpc_error).map(..).map(move |logs| limit_logs(logs, limit))
\* .map(FilterChanges::Logs)
FilterChangesLogged ==
    /\ fpc = "wait"
    /\ lpc = "idle"
    /\ IF lres.kind = "ok"
       THEN FilterAnswer("logs", "", <<>>, limit_logs(lres.logs, None))
       ELSE FilterAnswer("err", lres.msg, <<>>, <<>>)
    /\ UNCHANGED <<chainVars, lockVars, minerVars, readerVars, simVars, queryVars, ctxVars,
                   apiVars, brokerVars>>

----------------------------------------------------------------------------
(* pubsub Broker.                                                          *)

\* Inner.last_notified_block: AtomicU64::new(0); no tick is in progress.
BrokerNew == [last_notified_block |-> 0, pc |-> "idle", blk |-> RetErr("")]

BrokerFrame ==
    <<chainVars, lockVars, minerVars, readerVars, simVars, queryVars, ctxVars, apiVars,
      filterVars>>

\* One tick of the interval: inner.blockchain.get_latest_block().
BrokerTick ==
    /\ broker.pc = "idle"
    /\ CanRead
    /\ broker' = [broker EXCEPT !.pc = "notify", !.blk = get_latest_block(ChainState)]
    /\ UNCHANGED <<notified, BrokerFrame>>

\* The tick telling the listener about the latest block alone.
BrokerNotify_LatestOnly ==
    /\ broker.pc = "notify"
    /\ IF ~broker.blk.ok
       THEN /\ broker' = [broker EXCEPT !.pc = "aborted"]
            /\ UNCHANGED notified
       ELSE LET last_notified_block == broker.last_notified_block
                to == broker.blk.val.number
            IN  IF to <= last_notified_block
                THEN /\ broker' = [broker EXCEPT !.pc = "idle", !.blk = RetErr("")]
                     /\ UNCHANGED notified
                ELSE /\ notified' = Append(notified, [from |-> to, to |-> to])
                     /\ broker' = [broker EXCEPT !.pc = "idle", !.blk = RetErr(""),
                                                 !.last_notified_block = to]
    /\ UNCHANGED BrokerFrame

\* .map(move |blk| { .. }): nothing to do unless the latest block is beyond
\* last_notified_block; otherwise the listener, which is alive, is told
\* notify_blocks(last_notified_block + 1, to) and to is stored. An error of
\* get_latest_block ends the process (abort()).
BrokerNotify ==
    /\ broker.pc = "notify"
    /\ IF ~broker.blk.ok
       THEN /\ broker' = [broker EXCEPT !.pc = "aborted"]
            /\ UNCHANGED notified
       ELSE LET last_notified_block == broker.last_notified_block
                to == broker.blk.val.number
                from == last_notified_block + 1
            IN  IF to <= last_notified_block
                THEN /\ broker' = [broker EXCEPT !.pc = "idle", !.blk = RetErr("")]
                     /\ UNCHANGED notified
                ELSE /\ notified' = Append(notified, [from |-> from, to |-> to])
                     /\ broker' = [broker EXCEPT !.pc = "idle", !.blk = RetErr(""),
                                                 !.last_notified_block = to]
    /\ UNCHANGED BrokerFrame

----------------------------------------------------------------------------
(* The system.                                                             *)

InitProgram ==
    /\ mkvs = ChainStateNew.mkvs
    /\ block_number = ChainStateNew.block_number
    /\ blocks = ChainStateNew.blocks
    /\ block_number_to_hash = ChainStateNew.block_number_to_hash
    /\ transactions = ChainStateNew.transactions
    /\ receipts = ChainStateNew.receipts
    /\ writer = NoThread
    /\ readers = {}
    /\ pc = [m \in Miners |-> "idle"]
    /\ loc = [m \in Miners |-> NoLoc]
    /\ last_result = NoResult
    /\ snap = [m \in Miners |-> ChainStateNew]
    /\ succeeded = 0
    /\ rpc = [r \in Readers |-> "idle"]
    /\ seen = [r \in Readers |-> 0]
    /\ spc = [s \in Sims |-> "idle"]
    /\ sloc = [s \in Sims |-> NoSloc]
    /\ lpc = "idle"
    /\ lloc = NoLloc
    /\ lres = NoLres
    /\ qres = NoQres
    /\ ctx = ConfidentialCtxNew(ZeroHash)
    /\ cret = NoCret
    /\ session_use = None
    /\ established = FALSE
    /\ stored = None
    /\ storage_use = None
    /\ polls = NoPoll
    /\ fpc = "idle"
    /\ floc = NoFloc
    /\ fres = NoFres
    /\ reported = <<>>
    /\ broker = BrokerNew
    /\ notified = <<>>

Init == InitProgram /\ api = ApiIdle

Next ==
    \/ \E m \in Miners, raw \in RawTxns : send_raw_transaction(m, raw)
    \/ \E m \in Miners : AcquireWrite(m)
    \/ \E m \in Miners : Execute(m)
    \/ \E m \in Miners : Commit(m)
    \/ \E m \in Miners : SetNumber(m)
    \/ \E m \in Miners : StoreTxn(m)
    \/ \E m \in Miners : StoreReceipt(m)
    \/ \E m \in Miners : StoreBlock(m)
    \/ \E m \in Miners : IndexBlock(m)
    \/ \E m \in Miners : Return(m)
    \/ \E r \in Readers : ReadBest(r)
    \/ \E r \in Readers : Lookup(r)
    \/ \E s \in Sims, t \in SimTxns : SimStart(s, t)
    \/ \E s \in Sims : SimFinish(s)

Spec == Init /\ [][Next]_vars

\* The chain with one caller of send_raw_transaction and a client issuing the
\* direct lookups and logs.
QueryMiners == {"m1"}
ValidRawTxns == {raw \in RawTxns : Validate(raw) = "ok"}

NextQuery ==
    \/ \E m \in QueryMiners, raw \in ValidRawTxns : send_raw_transaction(m, raw)
    \/ \E m \in QueryMiners : AcquireWrite(m)
    \/ \E m \in QueryMiners : Execute(m)
    \/ \E m \in QueryMiners : Commit(m)
    \/ \E m \in QueryMiners : SetNumber(m)
    \/ \E m \in QueryMiners : StoreTxn(m)
    \/ \E m \in QueryMiners : StoreReceipt(m)
    \/ \E m \in QueryMiners : StoreBlock(m)
    \/ \E m \in QueryMiners : IndexBlock(m)
    \/ \E m \in QueryMiners : Return(m)
    \/ \E id \in BlockIds, hash \in TxnHashes : DirectLookups(id, hash)
    \/ \E filter \in Filters : LogsResolveFrom(filter)
    \/ LogsResolveTo
    \/ LogsFetch
    \/ LogsCollect

SpecQuery == Init /\ [][NextQuery]_vars

\* The chain with one caller of send_raw_transaction and a client that installs
\* a filter and polls it.
NextFilter ==
    \/ \E m \in QueryMiners, raw \in ValidRawTxns : send_raw_transaction(m, raw)
    \/ \E m \in QueryMiners : AcquireWrite(m)
    \/ \E m \in QueryMiners : Execute(m)
    \/ \E m \in QueryMiners : Commit(m)
    \/ \E m \in QueryMiners : SetNumber(m)
    \/ \E m \in QueryMiners : StoreTxn(m)
    \/ \E m \in QueryMiners : StoreReceipt(m)
    \/ \E m \in QueryMiners : StoreBlock(m)
    \/ \E m \in QueryMiners : IndexBlock(m)
    \/ \E m \in QueryMiners : Return(m)
    \/ FilterNew("block", NoFilter)
    \/ \E filter \in InstalledFilters : FilterNew("logs", filter)
    \/ FilterCreate
    \/ FilterChangesLatest
    \/ FilterChangesMatch
    \/ FilterChangesBlock
    \/ FilterChangesHashes
    \/ FilterChangesLogs
    \/ LogsResolveTo
    \/ LogsFetch
    \/ LogsCollect
    \/ FilterChangesLogged

SpecFilter == Init /\ [][NextFilter]_vars

\* The steps of a mine_block under way.
MinerStep(m) ==
    \/ AcquireWrite(m)
    \/ Execute(m)
    \/ Commit(m)
    \/ SetNumber(m)
    \/ StoreTxn(m)
    \/ StoreReceipt(m)
    \/ StoreBlock(m)
    \/ IndexBlock(m)
    \/ Return(m)

\* The chain with one caller of send_raw_transaction and the broker's ticks.
NextBroker ==
    \/ \E m \in QueryMiners, raw \in ValidRawTxns : send_raw_transaction(m, raw)
    \/ \E m \in QueryMiners : MinerStep(m)
    \/ BrokerTick
    \/ BrokerNotify

\* The interval keeps ticking, the tick's read guard is granted whenever the
\* lock is free again and again, and a mine_block under way runs to its end.
SpecBroker ==
    /\ Init
    /\ [][NextBroker]_vars
    /\ SF_vars(BrokerTick)
    /\ WF_vars(BrokerNotify)
    /\ \A m \in QueryMiners : WF_vars(MinerStep(m))

\* Every kind of operation at once: two callers of send_raw_transaction, a
\* client reading, a simulation job and a client calling logs. The callers
\* submit transactions of nonce 0: the first is mined, the ones after it are
\* turned down by apply, each of them under the write guard, without end.
LiveFilters == {f \in Filters : f.address = None /\ f.to_block = IdLatest
                                /\ f.from_block = IdEarliest}
LiveRawTxns == {raw \in ValidRawTxns : raw.nonce = 0}

NextLive ==
    \/ \E m \in Miners, raw \in LiveRawTxns : send_raw_transaction(m, raw)
    \/ \E m \in Miners : MinerStep(m)
    \/ \E r \in Readers : ReadBest(r)
    \/ \E r \in Readers : Lookup(r)
    \/ \E s \in Sims, t \in SimTxns : SimStart(s, t)
    \/ \E s \in Sims : SimFinish(s)
    \/ \E filter \in LiveFilters : LogsResolveFrom(filter)
    \/ LogsResolveTo
    \/ LogsFetch
    \/ LogsCollect

\* The engine's apply and transact_virtual return, a thread that holds a guard
\* runs on, and the lock is fair: a guard that can be granted again and again
\* is granted.
SpecLive ==
    /\ Init
    /\ [][NextLive]_vars
    /\ \A m \in Miners : SF_vars(AcquireWrite(m)) /\ WF_vars(MinerStep(m))
    /\ \A r \in Readers : SF_vars(Lookup(r))
    /\ \A s \in Sims : WF_vars(SimFinish(s))
    /\ SF_vars(LogsResolveTo)
    /\ SF_vars(LogsFetch)
    /\ WF_vars(LogsCollect)

\* The calls made on the ConfidentialCtx of one execution after another.
NextCtx ==
    \/ \E prev_block_hash \in PrevHashes : CtxNew(prev_block_hash)
    \/ \E contract \in {None} \cup {Some(a) : a \in Addresses} : CtxActivate(contract)
    \/ CtxDeactivate
    \/ \E data \in Plaintexts : CtxEncryptSession(data)
    \/ \E encrypted_payload \in InboundPayloads : CtxDecryptSession(encrypted_payload)
    \/ \E data \in Plaintexts : CtxEncryptStorageValue(data)
    \/ \E encrypted_tx_data \in InboundPayloads : CtxDecrypt(encrypted_tx_data)
    \/ \E data \in Plaintexts : CtxEncryptStorageKey(data)

SpecCtx == Init /\ [][NextCtx]_vars

\* The storage calls made on the ConfidentialCtx of one execution after another.
NextStorage ==
    \/ \E prev_block_hash \in PrevHashes : CtxNew(prev_block_hash)
    \/ \E contract \in {None} \cup {Some(a) : a \in Addresses} : CtxActivate(contract)
    \/ CtxDeactivate
    \/ \E data \in StoragePlaintexts : CtxEncryptStorageValue(data)
    \/ \E data \in StoragePlaintexts : CtxSetStorage(data)
    \/ \E read \in StorageReads : CtxDecryptStorageValue(read)

SpecStorage == Init /\ [][NextStorage]_vars

\* The calls that use and move the nonces of a ConfidentialCtx; the peer's
\* payloads carry a counter of 0, 1 or the maximum.
NoncePayloads ==
    [wellformed : {TRUE}, sender : {<<40>>},
     to : {ContractKeyOf(a).input_pk : a \in Addresses},
     nonce : {SessionTag \o CounterBytes(c) : c \in {0, 1, CounterMax}},
     plaintext : Plaintexts]

NextNonce ==
    \/ \E prev_block_hash \in PrevHashes : CtxNew(prev_block_hash)
    \/ \E contract \in {None} \cup {Some(a) : a \in Addresses} : CtxActivate(contract)
    \/ \E data \in Plaintexts : CtxEncryptSession(data)
    \/ \E encrypted_payload \in NoncePayloads : CtxDecryptSession(encrypted_payload)
    \/ \E data \in Plaintexts : CtxWriteStorage(data)

SpecNonce == Init /\ [][NextNonce]_vars

\* ApiSet::from_str on each of the strings.
InitApi ==
    /\ InitProgram
    /\ \E given \in ItemLists :
          api = [ApiIdle EXCEPT !.pc = "start", !.given = given, !.input = Join(given)]

NextApi ==
    \/ ApiSplit
    \/ ApiParseItem
    \/ ApiReturn

SpecApi == InitApi /\ [][NextApi]_vars

----------------------------------------------------------------------------
(* Properties of the chain-state mining engine.                            *)

InMineBlock(m) == pc[m] \notin {"idle", "mine"}
BlockAt(n) == get_block_by_number(ChainState, n)
VmFailures == {"Reverted", "OutOfGas"}

\* C1: after N successful send_raw_transaction calls the best block number is N,
\* blocks 0..N exist with contiguous numbers, and block i's parent hash is the
\* hash of block i-1; every successful call advances the best block by one.
C1_Sequencing ==
    CanRead =>
        /\ block_number = succeeded
        /\ \A i \in 0..block_number : BlockAt(i) # None /\ BlockAt(i)[1].number = i
        /\ \A i \in 1..block_number : BlockAt(i)[1].parent_hash = BlockAt(i - 1)[1].hash

C1_Witness == CanRead /\ succeeded >= 2 /\ block_number >= 2

\* C2: a send_raw_transaction call rejected by one of its four checks leaves the
\* whole ChainState (storage, best block number, the four maps) unchanged.
C2_RejectionFrame ==
    [][(\E m \in Miners, raw \in RawTxns :
            /\ pc[m] = "idle"
            /\ Validate(raw) # "ok"
            /\ last_result' = Err(Validate(raw))
            /\ pc' = pc)
        => ChainState' = ChainState]_vars

C2_Witness ==
    /\ last_result.kind = "err"
    /\ last_result.msg = "Requested gas greater than block gas limit"
    /\ block_number >= 1

\* C3: when apply returns an error, mine_block returns the engine's message and
\* the ChainState is as it was when the write guard was taken: no block,
\* transaction or receipt added, nothing committed.
C3_EngineErrorAborts ==
    [][\A m \in Miners :
          (pc[m] = "apply" /\ pc'[m] = "idle") =>
              /\ last_result'.kind = "err"
              /\ last_result'.msg \in
                    {r.err : r \in {x \in ApplyResults(mkvs, loc[m].txn) : ~x.ok}}
              /\ ChainState' = snap[m]
              /\ ChainState' = ChainState]_vars

C3_Witness ==
    /\ last_result.kind = "err"
    /\ last_result.msg \in EngineErrors
    /\ block_number >= 1
    /\ \A m \in Miners : pc[m] = "idle"

\* C4 as stated: when the engine reports a revert or out-of-gas, the block is
\* discarded and the caller receives an error.
C4_RevertDiscardsBlock ==
    [][\A m \in Miners :
          (pc[m] # "idle" /\ pc'[m] = "idle" /\ loc[m].outcome.exception \in VmFailures) =>
              /\ last_result'.kind = "err"
              /\ block_number' = snap[m].block_number
              /\ blocks' = snap[m].blocks
              /\ transactions' = snap[m].transactions
              /\ receipts' = snap[m].receipts]_vars

\* C4 as amended: a revert or out-of-gas is an Ok outcome of apply with status code
\* 0; the block is mined, the best block number advances by one, the block, the
\* transaction record and the receipt are stored, and the caller receives an
\* ExecutionResult with status_code 0.
C4_RevertMinesStatusZero ==
    [][\A m \in Miners :
          (pc[m] # "idle" /\ pc'[m] = "idle" /\ loc[m].outcome.exception \in VmFailures) =>
              /\ last_result'.kind = "ok"
              /\ last_result'.status_code = 0
              /\ ReturnValue(loc[m])[2].status_code = 0
              /\ block_number' = snap[m].block_number + 1
              /\ get_block_by_number(ChainState', block_number') # None
              /\ get_txn_by_hash(ChainState', TxnHash(loc[m].txn)) # None
              /\ get_txn_receipt_by_hash(ChainState', TxnHash(loc[m].txn)) # None
              /\ get_txn_receipt_by_hash(ChainState', TxnHash(loc[m].txn))[1].outcome = 0]_vars

C4_Witness ==
    /\ last_result.kind = "ok"
    /\ last_result.status_code = 0
    /\ block_number >= 1
    /\ \A m \in Miners : pc[m] = "idle"

\* C5: whenever a read can be served, the best block and the block a client was
\* told is the best one are whole: the block, its number-to-hash entry, its
\* transaction record and its receipt are all visible.
C5_ReadersSeeWholeBlocks ==
    CanRead =>
        \A n \in {block_number} \cup {seen[r] : r \in {x \in Readers : rpc[x] = "seen"}} :
            LET f == LookupFinds(ChainState, n)
            IN  f.block /\ f.index /\ (n >= 1 => f.txn /\ f.receipt)

C5_Witness ==
    \E m \in Miners, r \in Readers :
        pc[m] = "store_txn" /\ rpc[r] = "seen" /\ seen[r] >= 1

\* C6: at most one mine_block is between taking the write guard and returning;
\* a mine_block that ran to its end created block best+1 under a number and a
\* hash that were not in use when it took the guard, and that block is its own.
C6_MutationsSerialized ==
    /\ Cardinality({m \in Miners : InMineBlock(m)}) <= 1
    /\ \A m \in Miners : InMineBlock(m) => writer = m
    /\ \A m \in Miners :
          pc[m] = "return" =>
              /\ loc[m].number = snap[m].block_number + 1
              /\ loc[m].number \notin DOMAIN snap[m].block_number_to_hash
              /\ NewBlock(loc[m]).hash \notin DOMAIN snap[m].blocks
              /\ BlockAt(loc[m].number) = Some(StoredBlock(loc[m]))

C6_Witness ==
    \E m1, m2 \in Miners :
        m1 # m2 /\ pc[m1] = "mine" /\ pc[m2] = "return"

\* C7 as stated: a simulation that is still executing never keeps a waiting
\* mine_block from the write guard.
C7_SimulationNeverBlocksWriter ==
    \A m \in Miners, s \in Sims :
        (pc[m] = "mine" /\ spc[s] = "exec" /\ writer = NoThread) => CanWrite

\* C8: a simulation never changes the ChainState and runs without a
\* ConfidentialCtx.
C8_SimulationFrame ==
    [][(spc' # spc) =>
          /\ ChainState' = ChainState
          /\ \A s \in Sims : sloc[s].ctx = None /\ sloc'[s].ctx = None]_vars

C8_Witness ==
    \E s \in Sims, m \in Miners :
        spc[s] = "exec" /\ sloc[s].number = 2 /\ pc[m] = "mine"

\* C9: a freshly created chain has best block number 0, one block (genesis:
\* number 0, parent hash zero, the fixed hash keccak("0")), one number-to-hash
\* entry, and empty transaction and receipt indices.
Fresh == succeeded = 0 /\ writer = NoThread

C9_Genesis ==
    Fresh =>
        /\ block_number = 0
        /\ DOMAIN blocks = {<<1, 48>>}
        /\ blocks[<<1, 48>>].number = 0
        /\ blocks[<<1, 48>>].hash = <<1, 48>>
        /\ blocks[<<1, 48>>].parent_hash = ZeroHash
        /\ blocks[<<1, 48>>].transactions = <<>>
        /\ DOMAIN block_number_to_hash = {0}
        /\ block_number_to_hash[0] = <<1, 48>>
        /\ DOMAIN transactions = {}
        /\ DOMAIN receipts = {}

C9_Witness ==
    /\ Fresh
    /\ last_result.kind = "none"
    /\ \A m \in Miners : pc[m] = "idle"

\* C10: after a successful mine_block of t into block n with hash h, the index
\* maps n to h, the block under h has number n and transactions [t] (index 0),
\* the record under hash(t) has block_hash h and block_number n, and the receipt
\* under hash(t) has transaction_hash hash(t) and block_hash h.
CrossReferenced(n, t) ==
    /\ n \in DOMAIN block_number_to_hash
    /\ LET h == block_number_to_hash[n]
           th == TxnHash(t)
       IN  /\ h \in DOMAIN blocks
           /\ blocks[h].number = n
           /\ blocks[h].hash = h
           /\ Len(blocks[h].transactions) = 1
           /\ blocks[h].transactions[1].signed = t
           /\ blocks[h].transactions[1].transaction_index = 0
           /\ th \in DOMAIN transactions
           /\ transactions[th].signed = t
           /\ transactions[th].block_hash = h
           /\ transactions[th].block_number = n
           /\ th \in DOMAIN receipts
           /\ receipts[th].transaction_hash = th
           /\ receipts[th].block_hash = h

C10_CrossReferences ==
    /\ \A m \in Miners : pc[m] = "return" => CrossReferenced(loc[m].number, loc[m].txn)
    /\ CanRead =>
          \A n \in 1..block_number :
              /\ BlockAt(n) # None
              /\ Len(BlockAt(n)[1].transactions) = 1
              /\ CrossReferenced(n, BlockAt(n)[1].transactions[1].signed)

C10_Witness ==
    \E m \in Miners : pc[m] = "return" /\ loc[m].number = 2

----------------------------------------------------------------------------
(* Properties of send_raw_transaction's validation.                        *)

\* The call of m returned an error with this message without entering mine_block.
RejectedWith(m, msg) == pc[m] = "idle" /\ pc'[m] = "idle" /\ last_result' = Err(msg)
\* The call of m passed the four checks and went on to mine_block.
ReachedMining(m, raw) == pc[m] = "idle" /\ pc'[m] = "mine" /\ loc'[m].txn = Signed(raw)

\* C11: send_raw_transaction checks decoding, gas limit, signature and gas price
\* in that order and returns the error of the first check that fails (gas above
\* the limit with an invalid signature gives the gas-limit error); mine_block is
\* reached only when all four checks pass.
C11_ValidationOrder ==
    [][\A m \in Miners, raw \in RawTxns :
          send_raw_transaction(m, raw) =>
              /\ ~raw.decodable => RejectedWith(m, "Could not decode transaction")
              /\ (raw.decodable /\ raw.gas > block_gas_limit) =>
                     RejectedWith(m, "Requested gas greater than block gas limit")
              /\ (raw.decodable /\ raw.gas <= block_gas_limit /\ ~raw.sig_ok) =>
                     RejectedWith(m, "Invalid signature")
              /\ (raw.decodable /\ raw.gas <= block_gas_limit /\ raw.sig_ok
                     /\ raw.gas_price < gas_price) =>
                     RejectedWith(m, "Insufficient gas price")
              /\ ReachedMining(m, raw) =>
                     /\ raw.decodable
                     /\ raw.gas <= block_gas_limit
                     /\ raw.sig_ok
                     /\ raw.gas_price >= gas_price]_vars

C11_Witness ==
    /\ last_result.kind = "err"
    /\ last_result.msg = "Invalid signature"
    /\ \E m \in Miners : pc[m] = "mine"

----------------------------------------------------------------------------
(* Properties of the lookups and of logs.                                  *)

\* The identifier names a block of the chain cs.
Known(cs, id) ==
    \/ id.kind \in {"Latest", "Earliest"}
    \/ id.kind = "Number" /\ id.number <= cs.block_number
    \/ id.kind = "Hash" /\ \E n \in 0..cs.block_number : id.hash = Keccak(to_string(n))

NotFound(r) == ~r.ok /\ r.err = "block not found"

\* C13: the direct getters answer a lookup of an unknown block, transaction or
\* receipt with an empty result and never with an error; get_block_unwrap, and
\* logs when its from or its to endpoint does not resolve, fail with
\* "block not found", logs returning no partial result.
C13_LookupMisses ==
    [][/\ (qres'.kind = "got" /\ DirectLookups(qres'.id, qres'.hash)) =>
             LET id == qres'.id
                 hash == qres'.hash
             IN  /\ qres'.block.ok /\ qres'.txn_by_hash.ok /\ qres'.receipt_by_hash.ok
                 /\ \A i \in Indices : qres'.txn[i].ok
                 /\ ~Known(ChainState, id) =>
                        /\ qres'.block.val = None
                        /\ \A i \in Indices : qres'.txn[i].val = None
                        /\ NotFound(qres'.unwrap)
                 /\ Known(ChainState, id) => qres'.unwrap.ok /\ qres'.block.val # None
                 /\ hash \notin DOMAIN transactions => qres'.txn_by_hash.val = None
                 /\ hash \notin DOMAIN receipts => qres'.receipt_by_hash.val = None
       /\ (lpc' = "to" /\ LogsResolveFrom(lloc'.filter)) =>
             (IF Known(ChainState, lloc'.filter.from_block)
              THEN lloc'.from.ok ELSE NotFound(lloc'.from))
       /\ (LogsResolveTo /\ (~lloc.from.ok \/ ~Known(ChainState, lloc.filter.to_block))) =>
             /\ lres'.kind = "err"
             /\ lres'.msg = "block not found"
             /\ lres'.logs = <<>>
             /\ lpc' = "idle"]_vars

C13_Witness ==
    /\ lres.kind = "err"
    /\ lres.filter.from_block = IdLatest
    /\ lres.filter.to_block = IdNumber(MaxBlocks + 1)
    /\ block_number >= 1

\* C14: for a filter whose endpoints resolve to f and t, logs returns exactly
\* the log entries of blocks f..=t that match the filter, each once, sorted
\* ascending by block number with the order within a block preserved; nothing
\* from outside [f, t] is returned, and the result is empty when f > t.
Wanted(filter, log) == filter.address = None \/ log.entry \in filter.address[1]

C14_LogsRange ==
    /\ lres.kind # "panic"
    /\ lres.kind = "ok" =>
          LET f == lres.from
              t == lres.to
              L == lres.logs
          IN  /\ \A i \in 1..Len(L) :
                    /\ L[i].block_number \in f..t
                    /\ Wanted(lres.filter, L[i])
                    /\ L[i].log_index + 1 \in DOMAIN BlockAt(L[i].block_number)[1].logs
                    /\ BlockAt(L[i].block_number)[1].logs[L[i].log_index + 1] = L[i]
              /\ \A n \in f..t :
                    \A k \in DOMAIN BlockAt(n)[1].logs :
                        Wanted(lres.filter, BlockAt(n)[1].logs[k]) =>
                            Cardinality({i \in 1..Len(L) : L[i] = BlockAt(n)[1].logs[k]}) = 1
              /\ \A i, j \in 1..Len(L) :
                    i < j =>
                        \/ L[i].block_number < L[j].block_number
                        \/ /\ L[i].block_number = L[j].block_number
                           /\ L[i].log_index < L[j].log_index
              /\ f > t => L = <<>>

C14_Witness ==
    /\ lres.kind = "ok"
    /\ lres.from = 2
    /\ lres.to = 2
    /\ lres.filter.address # None
    /\ Len(lres.logs) = 1
    /\ Len(BlockAt(1)[1].logs) = 2

----------------------------------------------------------------------------
(* Properties of the ConfidentialCtx.                                      *)

ActivateArgs == {None} \cup {Some(a) : a \in Addresses}

\* C15: after any sequence of operations is_encrypting() is true iff the context
\* is activated and has an active contract; it is false after activate(None),
\* although activated() is true then, and false after deactivate().
C15_IsEncrypting ==
    /\ is_encrypting(ctx) <=> (ctx.activated /\ AddressOf(ctx) # None)
    /\ (cret.op = "activate" /\ cret.arg = None) =>
          (activated(ctx) /\ ~is_encrypting(ctx))
    /\ cret.op = "deactivate" => (~activated(ctx) /\ ~is_encrypting(ctx))

C15_Witness ==
    /\ cret.op = "activate"
    /\ cret.arg = None
    /\ cret.ret.val # None
    /\ activated(ctx)

\* C16: activate(c) returns the address of the contract that was active before
\* the call (none if there was none) and makes c the active contract, so that
\* x = activate(c); ...; activate(x) leaves x active again, at any nesting depth.
C16_ActivateReturnsPrevious ==
    [][\A contract \in ActivateArgs :
          CtxActivate(contract) =>
              /\ cret'.ret.ok
              /\ cret'.ret.val = AddressOf(ctx)
              /\ AddressOf(ctx') = contract
              /\ AddressOf(activate(ctx', cret'.ret.val).ctx) = AddressOf(ctx)
              /\ \A c2 \in ActivateArgs :
                    LET inner == activate(ctx', c2)
                        inner_back == activate(inner.ctx, inner.ret.val)
                        outer_back == activate(inner_back.ctx, cret'.ret.val)
                    IN  /\ AddressOf(inner_back.ctx) = contract
                        /\ AddressOf(outer_back.ctx) = AddressOf(ctx)]_vars

C16_Witness ==
    /\ cret.op = "activate"
    /\ cret.arg = Some(1)
    /\ cret.ret.val = Some(2)
    /\ AddressOf(ctx) = Some(1)

\* C17: right after activate(Some(address)) the storage nonce is the first
\* NONCE_TAG_SIZE bytes of hash(prev_block_hash || address) followed by a zero
\* counter of four bytes, whatever was done on the context before.
C17_StorageNonceSeed ==
    (cret.op = "activate" /\ cret.arg # None) =>
        /\ ctx.next_storage_nonce # None
        /\ NonceBytes(ctx.next_storage_nonce[1]) =
              [i \in 1..NONCE_SIZE |->
                  IF i <= NONCE_TAG_SIZE
                  THEN [digest_of |-> ctx.prev_block_hash \o <<cret.arg[1]>>, at |-> i]
                  ELSE 0]
        /\ Len(NonceBytes(ctx.next_storage_nonce[1])) = 15

C17_Witness ==
    /\ cret.op = "activate"
    /\ cret.arg = Some(2)
    /\ ctx.prev_block_hash = Keccak(to_string(1))
    /\ established
    /\ ctx.next_nonce # None

\* C18: under one activation every successful encrypt_storage_value seals with
\* the storage nonce current before the call, appends that nonce to the
\* ciphertext, and leaves the counter one higher, so no two calls share a nonce.
C18_StorageNonceRatchet ==
    [][\A data \in Plaintexts :
          (CtxEncryptStorageValue(data) /\ cret'.ret.ok) =>
              LET before == ctx.next_storage_nonce[1]
                  after == ctx'.next_storage_nonce[1]
                  out == cret'.ret.val
              IN  /\ SubSeq(out, Len(out) - NONCE_SIZE + 1, Len(out)) = NonceBytes(before)
                  /\ \A i \in 1..(Len(out) - NONCE_SIZE) : out[i].nonce = NonceBytes(before)
                  /\ after.tag = before.tag
                  /\ after.counter = before.counter + 1
                  /\ NonceBytes(after) # NonceBytes(before)]_vars

C18_Witness ==
    /\ cret.op = "encrypt_storage_value"
    /\ cret.ret.ok
    /\ ctx.next_storage_nonce[1].counter = 2

\* C19 as stated: whatever operations are called (decrypt_session again, a
\* switch of contract by activate), a successful encrypt_session never uses the
\* session nonce that the successful encrypt_session before it used for the same
\* peer and contract.
C19_SessionNonceNeverReused ==
    [][\A data \in Plaintexts :
          (CtxEncryptSession(data) /\ cret'.ret.ok) => session_use' # session_use]_vars

\* The nonce n of a payload with its counter incremented within its four bytes.
Successor(nonce) ==
    SubSeq(nonce, 1, NONCE_TAG_SIZE)
        \o CounterBytes((BigEndian(SubSeq(nonce, NONCE_TAG_SIZE + 1, NONCE_SIZE)) + 1)
                            % (CounterMax + 1))

\* C20: a successful decrypt_session of a payload from sender key K with nonce n
\* sets the peer to K and the next session nonce to n+1: peer() returns K and
\* the encrypt_session that follows uses n+1; until a decrypt_session has
\* succeeded peer() returns none.
C20_DecryptEstablishesSession ==
    [][/\ ~established => peer(ctx) = None
       /\ (cret'.op = "decrypt_session" /\ cret'.ret.ok /\ CtxDecryptSession(cret'.arg)) =>
             /\ peer(ctx') = Some(cret'.arg.sender)
             /\ ctx'.next_nonce # None
             /\ NonceBytes(ctx'.next_nonce[1]) = Successor(cret'.arg.nonce)
       /\ \A data \in Plaintexts :
             (cret.op = "decrypt_session" /\ cret.ret.ok
                 /\ CtxEncryptSession(data) /\ cret'.ret.ok) =>
                     /\ cret'.ret.val.nonce = Successor(cret.arg.nonce)
                     /\ cret'.ret.val.to = cret.arg.sender]_vars

C20_Witness ==
    /\ cret.op = "encrypt_session"
    /\ cret.ret.ok
    /\ cret.ret.val.nonce = SessionTag \o CounterBytes(1)
    /\ cret.ret.val.to = <<41>>
    /\ established

\* The errors the ConfidentialCtx returns as Error::Confidential values.
ConfidentialErrors ==
    {"must have key pair of a contract and peer and a next nonce",
     "The confidential context must have a contract key when opening encrypted transaction data",
     "invalid nonce or public key", "truncated ciphertext", "nonce overflow"}

MissingSessionMaterial(c) ==
    c.peer_public_key = None \/ c.contract = None \/ c.next_nonce = None

\* C21: encrypt_session called while the peer public key, the active contract or
\* the session nonce is missing returns a confidential error and no output, and
\* leaves the context, its session nonce included, as it was; when it returns
\* Ok, all three were present and the output is the payload boxed to the peer
\* under the session nonce, never the plaintext.
C21_EncryptSessionRequires ==
    [][(cret'.op = "encrypt_session" /\ CtxEncryptSession(cret'.arg)) =>
          /\ MissingSessionMaterial(ctx) =>
                /\ ~cret'.ret.ok
                /\ cret'.ret.err \in ConfidentialErrors
                /\ cret'.ret.val = None
                /\ ctx' = ctx
                /\ session_use' = session_use
          /\ cret'.ret.ok =>
                /\ ~MissingSessionMaterial(ctx)
                /\ cret'.ret.val =
                      crypto_encrypt(cret'.arg, NonceBytes(ctx.next_nonce[1]),
                                     ctx.peer_public_key[1],
                                     ctx.contract[1].key.input_pk,
                                     ctx.contract[1].key.input_sk)]_vars

\* encrypt_session has refused a context that holds a peer key and a session
\* nonce but no contract, and the session is still there.
C21_Witness ==
    /\ cret.op = "encrypt_session"
    /\ ~cret.ret.ok
    /\ ctx.peer_public_key # None
    /\ ctx.next_nonce # None
    /\ ctx.contract = None

IsConfidentialError(r) == ~r.ok /\ r.err \in ConfidentialErrors

\* C22: an operation called on a context that lacks what it needs returns a
\* confidential error value, not a panic and not plaintext: decrypt_session and
\* the test-only decrypt without an active contract; encrypt_storage_key,
\* encrypt_storage_value and decrypt_storage_value without a cipher instance
\* or a storage nonce. None of these operations changes the contract, the
\* cipher instance or the presence of the storage nonce, so the context after
\* the call tells what was missing before it.
C22_MissingMaterialIsAnError ==
    /\ (cret.op \in {"decrypt_session", "decrypt"} /\ ctx.contract = None) =>
          IsConfidentialError(cret.ret)
    /\ (/\ cret.op \in {"encrypt_storage_key", "encrypt_storage_value",
                         "decrypt_storage_value"}
        /\ (ctx.d2 = None \/ ctx.next_storage_nonce = None)) =>
          IsConfidentialError(cret.ret)

NoContractKey ==
    RetErr("The confidential context must have a contract key when opening encrypted transaction data")

\* C23: deactivate, from any state, leaves the context Inactive: not activated,
\* with no peer public key, active contract, session nonce, cipher instance or
\* storage nonce, and with prev_block_hash as it was. The key manager still
\* hands out the same contract keys afterwards. A second deactivate changes
\* nothing, and a decrypt that follows fails for want of a contract key.
C23_DeactivateErases ==
    [][/\ (cret'.op = "deactivate" /\ CtxDeactivate) =>
             /\ ctx' = ConfidentialCtxNew(ctx.prev_block_hash)
             /\ ~activated(ctx') /\ ~is_encrypting(ctx') /\ peer(ctx') = None
             /\ cret.op = "deactivate" => ctx' = ctx
             /\ \A a \in Addresses :
                   activate(ctx', Some(a)).ctx.contract =
                       Some([address |-> a, key |-> ContractKeyOf(a)])
       /\ (cret.op = "deactivate" /\ cret'.op = "decrypt" /\ CtxDecrypt(cret'.arg)) =>
             /\ cret'.ret = NoContractKey
             /\ ctx' = ctx]_vars

\* A context on which a session had been established has been deactivated and
\* a decrypt on it has then failed for want of a contract key.
C23_Witness ==
    /\ established
    /\ cret.op = "decrypt"
    /\ cret.ret = NoContractKey
    /\ cret.arg # Unopenable
    /\ ctx = ConfidentialCtxNew(ctx.prev_block_hash)

----------------------------------------------------------------------------
(* Properties of the storage operations of the ConfidentialCtx.            *)

\* The nonce at the tail of a stored value.
TailNonce(data) == NonceNew(SubSeq(data, Len(data) - NONCE_SIZE + 1, Len(data)))

ActiveFor(c, address) == c.contract # None /\ c.contract[1].address = address

\* C24: what encrypt_storage_value returned for a plaintext P under a contract
\* decrypts to P under that contract: at once, and whenever it is read back
\* later, however far the storage nonce has moved on and in whichever block,
\* since the nonce is taken from the tail of the value. Reading changes nothing.
C24_StorageRoundTrip ==
    [][/\ (cret'.op = "encrypt_storage_value" /\ cret'.ret.ok) =>
             decrypt_storage_value(ctx', cret'.ret.val).ret = RetOk(cret'.arg)
       /\ (/\ cret'.op = "decrypt_storage_value"
           /\ stored # None
           /\ CtxDecryptStorageValue("whole")
           /\ ActiveFor(ctx, stored[1].address)) =>
             /\ cret'.ret = RetOk(stored[1].plaintext)
             /\ ctx' = ctx]_vars

\* A value has been read back after the storage nonce of the same activation
\* has moved on by two or more.
C24_Witness ==
    /\ cret.op = "decrypt_storage_value"
    /\ cret.ret.ok
    /\ stored # None
    /\ cret.arg = stored[1].ciphertext
    /\ cret.ret.val = stored[1].plaintext
    /\ ctx.next_storage_nonce # None
    /\ ctx.next_storage_nonce[1].tag = TailNonce(cret.arg).tag
    /\ ctx.next_storage_nonce[1].counter >= TailNonce(cret.arg).counter + 2

\* What encrypt_storage_key returns for the key bytes on a context made for
\* another block, on which nothing but the activation of the contract happened.
ReferenceStorageKey(address, data) ==
    encrypt_storage_key(activate(ConfidentialCtxNew(ZeroHash), Some(address)).ctx, data).ret

\* C25: encrypt_storage_key returns, for the same key bytes and the same
\* contract, the same ciphertext on every call, whatever the previous block
\* hash of the context and whatever storage values were encrypted and session
\* operations performed before; and it changes no field of the context.
C25_StorageKeyDeterministic ==
    [][(cret'.op = "encrypt_storage_key" /\ CtxEncryptStorageKey(cret'.arg)
          /\ ctx.contract # None) =>
          /\ cret'.ret = ReferenceStorageKey(ctx.contract[1].address, cret'.arg)
          /\ cret'.ret.ok
          /\ ctx' = ctx]_vars

\* encrypt_storage_key has answered on a context on which a session was used
\* and the storage nonce had moved on.
C25_Witness ==
    /\ cret.op = "encrypt_storage_key"
    /\ cret.ret.ok
    /\ session_use # None
    /\ ctx.contract # None
    /\ ctx.next_storage_nonce[1].counter >= 2
    /\ ctx.prev_block_hash # ZeroHash

\* C26: decrypt_storage_value returns the "truncated ciphertext" error for every
\* input shorter than TAG_SIZE + NONCE_SIZE, whether or not a cipher instance
\* exists, and leaves the context as it was. An input of that length or more
\* is never refused as truncated: its last NONCE_SIZE bytes are the nonce and
\* the bytes before them the ciphertext, so that it opens exactly when those
\* bytes were sealed under that nonce by the active cipher.
C26_TruncatedCiphertext ==
    [][\A read \in StorageReads :
          (cret'.op = "decrypt_storage_value" /\ CtxDecryptStorageValue(read)) =>
             LET data == cret'.arg
                 nonce == SubSeq(data, Len(data) - NONCE_SIZE + 1, Len(data))
                 ciphertext == SubSeq(data, 1, Len(data) - NONCE_SIZE)
             IN  /\ ctx' = ctx
                 /\ Len(data) < TAG_SIZE + NONCE_SIZE =>
                       cret'.ret = RetErr("truncated ciphertext")
                 /\ Len(data) >= TAG_SIZE + NONCE_SIZE =>
                       /\ cret'.ret.err # "truncated ciphertext"
                       /\ ctx.d2 # None =>
                             /\ cret'.ret.ok <=>
                                   ciphertext = seal(ctx.d2[1], nonce, ciphertext[1].data)
                             /\ cret'.ret.ok => cret'.ret.val = ciphertext[1].data]_vars

\* A value one byte short of TAG_SIZE + NONCE_SIZE has been refused as
\* truncated by a context that has no cipher instance.
C26_Witness ==
    /\ cret.op = "decrypt_storage_value"
    /\ cret.ret = RetErr("truncated ciphertext")
    /\ Len(cret.arg) = TAG_SIZE + NONCE_SIZE - 1
    /\ ctx.d2 = None

----------------------------------------------------------------------------
(* Properties of the API sets.                                             *)

Apis == {Web3, Net, Eth, EthPubSub, Oasis}
ApiName(a) ==
    CASE a = Web3 -> "web3" [] a = Net -> "net" [] a = Eth -> "eth"
      [] a = EthPubSub -> "pubsub" [] a = Oasis -> "oasis"

Adds(item, a) == item \in {<<"all">>, <<"safe">>, <<ApiName(a)>>}
Removes(item, a) == item = <<"-", ApiName(a)>>
Understood(item) == \E a \in Apis : Adds(item, a) \/ Removes(item, a)

\* C27: ApiSet::from_str fails exactly when some comma-separated item is not
\* "all", "safe", a known name or "-" followed by a known name, and then names
\* the first such item in its error; otherwise it returns the list in which an
\* API is present exactly when the last item concerning it adds it ("all" and
\* "safe" add all five, a name adds that API, "-name" removes it), which is the
\* left-to-right processing over an empty set. Two ApiSet values are equal
\* exactly when their listed sets are, and the default is the unsafe context.
C27_ApiSetParsing ==
    /\ ApiSetEq(ApiSetDefault, ApiSetUnsafeContext)
    /\ list_apis(ApiSetDefault) = Apis
    /\ api.pc = "done" =>
          LET items == api.given
              unknown == {i \in 1..Len(items) : ~Understood(items[i])}
              first == CHOOSE i \in unknown : \A j \in unknown : i <= j
              name == IF items[first] # <<>> /\ items[first][1] = "-"
                      THEN Tail(items[first]) ELSE items[first]
          IN  /\ api.ok <=> unknown = {}
              /\ ~api.ok => api.err = <<"Unknown api: ">> \o name
              /\ api.ok =>
                    /\ api.set.kind = "List"
                    /\ \A a \in Apis :
                          a \in list_apis(api.set) <=>
                             \E i \in 1..Len(items) :
                                /\ Adds(items[i], a)
                                /\ \A j \in (i + 1)..Len(items) : ~Removes(items[j], a)
                    /\ ApiSetEq(api.set, ApiSetAll) <=> api.set.apis = Apis
                    /\ ApiSetEq(api.set, ApiSetList({})) <=> api.set.apis = {}

\* "all,-eth,net" has been parsed to the four APIs other than eth.
C27_Witness ==
    /\ api.pc = "done"
    /\ api.ok
    /\ api.input = <<"all", ",", "-", "eth", ",", "net">>
    /\ list_apis(api.set) = Apis \ {Eth}
    /\ ~ApiSetEq(api.set, ApiSetDefault)

----------------------------------------------------------------------------
(* Properties of the chain and of the contexts its blocks are executed in. *)

BestHash(cs) == get_block_by_number(cs, cs.block_number)[1].hash
StorageSeed(c, address) == activate(c, Some(address)).ctx.next_storage_nonce

\* C28: mine_block executes its transaction in a fresh ConfidentialCtx whose
\* prev_block_hash is the hash of the block that was best when the write guard
\* was taken, with block number best + 1. The block it stores records that hash
\* as its parent, and no block stored before was executed with the same hash,
\* so for every contract the storage-nonce seed differs from those of all
\* earlier blocks.
C28_ContextPerBlock ==
    [][\A m \in Miners :
          /\ (pc[m] = "apply" /\ pc'[m] = "commit") =>
                /\ ChainState = snap[m]
                /\ loc'[m].ctx # None
                /\ loc'[m].ctx[1].prev_block_hash = BestHash(snap[m])
                /\ ~activated(loc'[m].ctx[1])
                /\ loc'[m].number = snap[m].block_number + 1
          /\ (pc[m] = "store_block" /\ pc'[m] = "index_block") =>
                LET c == loc[m].ctx[1]
                    block_hash == NewBlock(loc[m]).hash
                IN  /\ c.prev_block_hash = BestHash(snap[m])
                    /\ blocks'[block_hash].parent_hash = c.prev_block_hash
                    /\ blocks'[block_hash].number = snap[m].block_number + 1
                    /\ \A h \in DOMAIN blocks :
                          blocks[h].number >= 1 =>
                             /\ blocks[h].parent_hash # c.prev_block_hash
                             /\ \A a \in Addresses :
                                   StorageSeed(c, a) #
                                      StorageSeed(ConfidentialCtxNew(blocks[h].parent_hash), a)]_vars

\* The second block has been stored; it was executed on the hash of the first
\* block, the first on the hash of the genesis block.
C28_Witness ==
    \E m \in Miners :
        /\ pc[m] = "index_block"
        /\ loc[m].number = 2
        /\ BlockAt(1) # None
        /\ loc[m].ctx[1].prev_block_hash = BlockAt(1)[1].hash
        /\ BlockAt(1)[1].parent_hash = BlockAt(0)[1].hash
        /\ BlockAt(1)[1].hash # BlockAt(0)[1].hash

Kept(before, after) == \A k \in DOMAIN before : k \in DOMAIN after /\ after[k] = before[k]

\* C29: whatever has been stored stays as it is. No step changes or removes a
\* block, a transaction record, a receipt or an entry of the number index, and
\* a lookup by hash or number that found something finds the same thing after
\* every later step.
C29_AppendOnly ==
    [][/\ Kept(blocks, blocks')
       /\ Kept(transactions, transactions')
       /\ Kept(receipts, receipts')
       /\ Kept(block_number_to_hash, block_number_to_hash')
       /\ \A n \in 0..MaxBlocks :
             get_block_by_number(ChainState, n) # None =>
                get_block_by_number(ChainState', n) = get_block_by_number(ChainState, n)
       /\ \A h \in DOMAIN blocks :
             get_block_by_hash(ChainState', h) = get_block_by_hash(ChainState, h)
       /\ \A h \in DOMAIN transactions :
             get_txn_by_hash(ChainState', h) = get_txn_by_hash(ChainState, h)
       /\ \A h \in DOMAIN receipts :
             get_txn_receipt_by_hash(ChainState', h) = get_txn_receipt_by_hash(ChainState, h)]_vars

\* Two transactions have been mined one after the other, and the records of
\* both are there.
C29_Witness ==
    /\ succeeded >= 2
    /\ block_number = 2
    /\ BlockAt(1) # None /\ BlockAt(2) # None
    /\ \A n \in 1..2 :
          LET t == BlockAt(n)[1].transactions[1].signed
          IN  /\ get_txn_by_hash(ChainState, TxnHash(t)) # None
              /\ get_txn_receipt_by_hash(ChainState, TxnHash(t)) # None
              /\ get_txn_by_hash(ChainState, TxnHash(t))[1].block_number = n

----------------------------------------------------------------------------
(* What activate leaves alone.                                             *)

\* C30: activate, with a contract or with None, changes at most the activation
\* flag, the active contract, the cipher instance and the storage nonce. The
\* peer public key, the session nonce and prev_block_hash stay as they were,
\* so whenever encrypt_session succeeds both before and after a switch of
\* contract, it seals to the same peer under the same next nonce.
C30_ActivateKeepsSession ==
    [][(cret'.op = "activate" /\ CtxActivate(cret'.arg)) =>
          /\ ctx'.peer_public_key = ctx.peer_public_key
          /\ ctx'.next_nonce = ctx.next_nonce
          /\ ctx'.prev_block_hash = ctx.prev_block_hash
          /\ peer(ctx') = peer(ctx)
          /\ UNCHANGED <<session_use, established>>
          /\ \A data \in Plaintexts :
                LET before == encrypt_session(ctx, data)
                    after == encrypt_session(ctx', data)
                IN  /\ (before.ret.ok /\ cret'.arg # None) => after.ret.ok
                    /\ (before.ret.ok /\ after.ret.ok) =>
                          /\ after.ret.val.to = before.ret.val.to
                          /\ after.ret.val.nonce = before.ret.val.nonce
                          /\ after.ctx.next_nonce = before.ctx.next_nonce]_vars

\* A session in use under one contract has been switched to another contract:
\* the peer is still there and the next nonce follows the one used last.
C30_Witness ==
    /\ cret.op = "activate"
    /\ cret.ret.val # None
    /\ ctx.contract # None
    /\ cret.ret.val[1] # ctx.contract[1].address
    /\ session_use # None
    /\ ctx.peer_public_key = Some(session_use[1].peer)
    /\ session_use[1].contract # ctx.contract[1].key.input_pk
    /\ ctx.next_nonce # None
    /\ NonceBytes(ctx.next_nonce[1]) = NonceBytes(increment(NonceNew(session_use[1].nonce)).nonce)

----------------------------------------------------------------------------
(* The shape of every ConfidentialCtx.                                     *)

\* C31: in every context reached from ConfidentialCtx::new by the public
\* operations, the cipher instance, the active contract and the storage nonce
\* are present together or absent together; an active contract implies the
\* activation flag; a session nonce implies a peer public key. After
\* activate(None) the contract, the cipher and the storage nonce are all gone.
C31_ContextShape ==
    /\ (ctx.d2 # None) <=> (ctx.contract # None)
    /\ (ctx.contract # None) <=> (ctx.next_storage_nonce # None)
    /\ ctx.contract # None => ctx.activated
    /\ ctx.next_nonce # None => ctx.peer_public_key # None
    /\ (cret.op = "activate" /\ cret.arg = None) =>
          /\ ctx.contract = None /\ ctx.d2 = None /\ ctx.next_storage_nonce = None
          /\ ctx.activated

\* activate(None) has been called on a context with an active contract and
\* an established session.
C31_Witness ==
    /\ cret.op = "activate"
    /\ cret.arg = None
    /\ cret.ret.val # None
    /\ ctx.contract = None /\ ctx.d2 = None /\ ctx.next_storage_nonce = None
    /\ ctx.next_nonce # None /\ ctx.peer_public_key # None

----------------------------------------------------------------------------
(* The number index of the chain.                                          *)

WellIndexed(cs) ==
    /\ DOMAIN cs.block_number_to_hash = 0..cs.block_number
    /\ \A n \in 0..cs.block_number :
          /\ cs.block_number_to_hash[n] \in DOMAIN cs.blocks
          /\ cs.blocks[cs.block_number_to_hash[n]].number = n

\* C32: in every ChainState an operation finds behind the lock (mine_block
\* changes it only while it holds the write guard), the number index has an
\* entry for each n from 0 to the best block number and for no other n, and
\* the block map holds under that hash a block numbered n. So the lookups that
\* require a block to exist find it, whatever mining goes on in between:
\* get_latest_block and get_block(Latest), the best-block lookup of mine_block,
\* and each fetch of logs.
C32_NumberIndex ==
    /\ writer = NoThread => WellIndexed(ChainState)
    /\ \A m \in Miners : pc[m] = "apply" => WellIndexed(ChainState)
    /\ CanRead =>
          /\ get_latest_block(ChainState).ok
          /\ get_block(ChainState, IdLatest).ok
          /\ get_block(ChainState, IdLatest).val # None
          /\ lpc = "fetch" =>
                \A n \in lloc.todo : get_block_by_number(ChainState, n) # None
    /\ lres.kind # "panic"
    /\ qres.kind = "got" => qres.block.ok /\ (qres.id = IdLatest => qres.unwrap.ok)

\* A logs call is fetching its blocks while a block has been mined since it
\* resolved its range.
C32_Witness ==
    /\ CanRead
    /\ lpc = "fetch"
    /\ lloc.todo # {}
    /\ block_number > lloc.to.val.number
    /\ block_number >= 2

\* ---------------------------------------------------------------------
\* The storage nonces of one ConfidentialCtx.

\* C33: within the lifetime of one ConfidentialCtx, whatever activate calls
\* come in between, an encrypt_storage_value made while a contract is active
\* does not seal under the nonce that the first encrypt_storage_value of this
\* context sealed under for the same contract.
C33_NoStorageNonceReuse ==
    [][(/\ cret'.op = "encrypt_storage_value"
        /\ cret'.ret.ok
        /\ storage_use # None
        /\ ctx.contract # None
        /\ ctx.next_storage_nonce # None
        /\ storage_use[1].address = ctx.contract[1].address) =>
            StorageUse(ctx).nonce # storage_use[1].nonce]_vars

\* ---------------------------------------------------------------------
\* decrypt_session that fails.

\* C34: a decrypt_session that does not succeed leaves the context as it was:
\* the peer public key and the session nonce of an established session stay,
\* and so does every other field.
C34_FailedDecryptKeepsContext ==
    [][(cret'.op = "decrypt_session" /\ ~cret'.ret.ok) => ctx' = ctx]_vars

C34_Witness ==
    /\ cret.op = "decrypt_session"
    /\ IsConfidentialError(cret.ret)
    /\ ctx.contract # None
    /\ ctx.peer_public_key # None
    /\ ctx.next_nonce # None

\* ---------------------------------------------------------------------
\* Filters polled with filter_changes.

\* The number of the block with this hash.
NumberOf(hash) == blocks[hash].number

\* C35: for a block filter made when the latest block was b, the hashes that
\* the filter_changes calls return, taken together, are those of blocks after
\* b, each once and in ascending order; an answered call has caught up with
\* the latest block it was given; a call answered when no block was mined
\* since the call before returns no hash.
C35_BlockFilterReportsOnce ==
    polls.kind = "Block" =>
        /\ \A i \in 1..Len(reported) : NumberOf(reported[i]) > polls.created
        /\ \A i, j \in 1..Len(reported) :
              i < j => NumberOf(reported[i]) < NumberOf(reported[j])
        /\ fres.kind = "hashes" =>
              \A n \in (polls.created + 1)..fres.at :
                  \E i \in 1..Len(reported) : NumberOf(reported[i]) = n
        /\ (fres.kind # "none" /\ fres.quiet) =>
              fres.kind = "hashes" /\ fres.hashes = <<>>

\* The log entries of the blocks first..last that the filter keeps.
MatchingLogs(first, last, filter) ==
    {log \in UNION {{blocks[h].logs[i] : i \in 1..Len(blocks[h].logs)} : h \in DOMAIN blocks} :
        log.block_number \in first..last /\ matches(filter, log)}

\* C36: for a log filter, the filter_changes calls never return a log entry
\* that an earlier call returned, and an answered call has returned, with the
\* calls before it, every matching entry of the blocks mined after the filter
\* was made up to the latest block the call was given.
C36_LogFilterReportsOnce ==
    polls.kind = "Logs" =>
        /\ \A i, j \in 1..Len(reported) : i < j => reported[i] # reported[j]
        /\ fres.kind = "logs" =>
              \A log \in MatchingLogs(polls.created + 1, fres.at, polls.filter) :
                  \E i \in 1..Len(reported) : reported[i] = log

\* C37: a filter_changes call on a log filter, answered when no block was mined
\* since the call before it, succeeds with an empty list of logs.
C37_QuietLogPollIsEmpty ==
    (fres.of = "Logs" /\ fres.quiet) => fres.kind = "logs" /\ fres.logs = <<>>

\* ---------------------------------------------------------------------
\* The broker's notifications.

\* Block n is within one of the ranges the listener was told.
Covered(n) == \E i \in 1..Len(notified) : notified[i].from <= n /\ n <= notified[i].to

\* The ranges told follow one another from block 1 on and end at
\* last_notified_block.
Contiguous ==
    /\ \A i \in 1..Len(notified) :
          /\ notified[i].from <= notified[i].to
          /\ notified[i].from = IF i = 1 THEN 1 ELSE notified[i - 1].to + 1
    /\ broker.last_notified_block =
          IF notified = <<>> THEN 0 ELSE notified[Len(notified)].to

\* C38: last_notified_block never decreases and never exceeds the best block
\* number; every notify_blocks(from, to) has from <= to and from one after the
\* to of the notification before it, 1 for the first; and while the ticks go
\* on every mined block comes to be covered by a notification.
C38_BrokerNotifications ==
    /\ [](broker.last_notified_block <= block_number /\ broker.pc # "aborted" /\ Contiguous)
    /\ [][broker'.last_notified_block >= broker.last_notified_block]_vars
    /\ \A n \in 1..(MaxBlocks + 1) :
          (n \in DOMAIN block_number_to_hash) ~> Covered(n)

C38_Witness ==
    /\ Len(notified) = 2
    /\ notified[1].to = 1
    /\ notified[2].from = 2
    /\ broker.last_notified_block = 2
    /\ Covered(1) /\ Covered(2)

\* ---------------------------------------------------------------------
\* The chain-state lock.

\* The write guard is held by a caller inside mine_block and by nobody else,
\* a read guard kept across steps by a simulation under way and by nobody
\* else, and never both at once.
GuardsHeldByOperations ==
    /\ writer # NoThread => writer \in Miners /\ readers = {}
    /\ \A m \in Miners : writer = m <=> pc[m] \notin {"idle", "mine"}
    /\ \A s \in Sims : s \in readers <=> spc[s] = "exec"
    /\ readers \subseteq Sims

\* A guard is taken only by a thread that holds none.
TakenOnlyWhenFree ==
    /\ \A m \in Miners : (writer' = m /\ writer # m) => (writer = NoThread /\ readers = {})
    /\ \A s \in Sims : (s \in readers' /\ s \notin readers) => writer = NoThread

\* C39: no operation takes the chain-state lock while it holds it, and every
\* operation gives back what it took; so, with the engine's calls returning
\* and a fair lock, every send_raw_transaction, read query, logs call and
\* simulation that was started comes to its end.
C39_NoDeadlock ==
    /\ []GuardsHeldByOperations
    /\ [][TakenOnlyWhenFree]_vars
    /\ \A m \in Miners : (pc[m] # "idle") ~> (pc[m] = "idle")
    /\ \A r \in Readers : (rpc[r] # "idle") ~> (rpc[r] = "idle")
    /\ \A s \in Sims : (spc[s] # "idle") ~> (spc[s] = "idle")
    /\ (lpc # "idle") ~> (lpc = "idle")

\* A caller waits for the write guard while a simulation holds a read guard
\* and the logs call is between two of its reads.
C39_Witness ==
    /\ \E m \in Miners : pc[m] = "mine"
    /\ readers # {}
    /\ lpc = "fetch"
    /\ \E r \in Readers : rpc[r] = "seen"

\* ---------------------------------------------------------------------
\* Nonce counters at their maximum.

\* C40: nonce counters never wrap. With the counter of the storage nonce at
\* its maximum encrypt_storage_value, and with the counter of the session
\* nonce at its maximum encrypt_session, returns a confidential error and no
\* ciphertext and leaves the context as it was; a call that succeeds leaves
\* the tag as it was and the counter one higher.
C40_NonceCountersNeverWrap ==
    [][/\ (/\ cret'.op = "encrypt_storage_value"
           /\ ctx.next_storage_nonce # None
           /\ ctx.d2 # None) =>
             LET before == ctx.next_storage_nonce[1]
             IN  IF before.counter = CounterMax
                 THEN /\ IsConfidentialError(cret'.ret)
                      /\ cret'.ret.val = None
                      /\ ctx' = ctx
                 ELSE /\ ctx'.next_storage_nonce[1].tag = before.tag
                      /\ ctx'.next_storage_nonce[1].counter = before.counter + 1
       /\ (cret'.op = "encrypt_session" /\ ~MissingSessionMaterial(ctx)) =>
             LET before == ctx.next_nonce[1]
             IN  IF before.counter = CounterMax
                 THEN /\ IsConfidentialError(cret'.ret)
                      /\ cret'.ret.val = None
                      /\ ctx' = ctx
                 ELSE cret'.ret.ok =>
                        /\ ctx'.next_nonce[1].tag = before.tag
                        /\ ctx'.next_nonce[1].counter = before.counter + 1]_vars

====
